---- MODULE Spec2Model ----
(***************************************************************************)
(* Verification model of the ReadyForUs question-bank tooling:             *)
(*   - data/phase_2/scripts/convert_questions.py   (text -> q##.json)      *)
(*   - data/phase_2/scripts/aggregate_questions.py (q##.json -> document)  *)
(*   - scripts/convert_questions_md.py             (markdown -> document)  *)
(*   - scripts/validate_schema.py, scripts/validate_manifest.py            *)
(*                                                                         *)
(* Text is modelled at the level of words: a label is a sequence of words, *)
(* a slug is the sequence of its underscore-separated parts (the string    *)
(* "mood_2" is <<"mood", "2">>), and lower-casing / stripping are tables   *)
(* over the word vocabulary.  A parenthetical annotation is the sequence   *)
(* of the tokens it contains, so that Python's substring test              *)
(* `"compound" in type_str` is membership of a token in that sequence.     *)
(***************************************************************************)
EXTENDS Integers, Sequences, FiniteSets, TLC

VARIABLES pc, conv, agg, pm, pf, val, phase_dir

vars == <<pc, conv, agg, pm, pf, val, phase_dir>>

\* Value of a program's state while another program is the one running.
Idle == "idle"

(***************************************************************************)
(* Bounds of the model.                                                    *)
(***************************************************************************)
\* Lines of a phase-2 text document / markdown document (structure runs).
MaxLines == 4
\* Body lines of the single question block of a block run.
MaxBody == 3
\* Field lines handed to parse_fields in a fields run.
MaxFieldLines == 3
\* Length of a question_ids list in a persisted document given to a validator.
MaxRefs == 2
\* Length of a manifest's question_ids list in such a document.
MaxManifestRefs == 1
\* Paths at which a manifest.json given to the validator deviates from a
\* complete one.
MaxDeviations == 2
\* Phase directories under the data directory in a run of validate_schema's
\* main.
MaxPhases == 3
\* Commands of question_tool run one after the other against one phase
\* directory.
MaxOps == 3
\* Commands run against one phase directory in a run of questions_manager.
MaxManagerOps == 4

(***************************************************************************)
(* Generic helpers.                                                        *)
(***************************************************************************)
Range(s) == {s[i] : i \in 1..Len(s)}

SeqsUpTo(S, n) == UNION {[1..k -> S] : k \in 0..n}

RECURSIVE Flatten(_)
Flatten(ss) == IF ss = <<>> THEN <<>> ELSE Head(ss) \o Flatten(Tail(ss))

\* dict[key] = value
Put(d, k, v) == [x \in DOMAIN d \cup {k} |-> IF x = k THEN v ELSE d[x]]

EmptyDict == [x \in {} |-> ""]

\* JSON values an answer_schema entry can hold.
EmptyString == "''"
EmptyList == "[]"
Zero == "0"

(***************************************************************************)
(* Word vocabulary: str.lower() and re.sub(r'[^a-z0-9_]', '', s.lower()).  *)
(***************************************************************************)
Lower(w) ==
  CASE w = "Mood" -> "mood"
    [] w = "Notes" -> "notes"
    [] w = "Notes!" -> "notes!"
    [] w = "Optional" -> "optional"
    [] w = "Choice" -> "choice"
    [] w = "Yes" -> "yes"
    [] w = "No" -> "no"
    [] w = "Other" -> "other"
    [] w = "A:" -> "a:"
    [] w = "Often" -> "often"
    [] w = "Single_Select" -> "single_select"
    [] w = "COMPOUND" -> "compound"
    [] OTHER -> w

\* Lower-cased word with every character outside [a-z0-9_] removed.
Slug(w) ==
  LET l == Lower(w) IN
  CASE l = "(write" -> "write"
    [] l = "in)" -> "in"
    [] l = "a:" -> "a"
    [] l = "notes!" -> "notes"
    [] OTHER -> l

\* key[0].isdigit()
StartsWithDigit(w) == w \in {"0", "1", "2", "3", "4", "5", "6", "7", "8", "9"}

\* ":" in word
HasColon(w) == w \in {"A:", "a:"}

\* str(counter) for the collision suffixes
NumStr(n) ==
  CASE n = 2 -> "2" [] n = 3 -> "3" [] n = 4 -> "4" [] n = 5 -> "5"
    [] n = 6 -> "6" [] n = 7 -> "7" [] n = 8 -> "8" [] OTHER -> "9"

SubSeqTo(s, n) == SubSeq(s, 1, IF Len(s) < n THEN Len(s) ELSE n)

\* The words of the model are short: four of them joined stay under the
\* thirty characters kept by key[:30] / val[:30], so the cut keeps them all.
clean_key(text) ==
  LET words == SubSeqTo(text, 4)
      key == [i \in 1..Len(words) |-> Slug(words[i])]
  IN IF key # <<>> /\ StartsWithDigit(key[1]) THEN <<"f">> \o key ELSE key

\* "other (write in)" in text.lower()
MentionsOtherWriteIn(text) ==
  \E i \in 1..Len(text) :
    /\ i + 2 <= Len(text)
    /\ Lower(text[i]) = "other"
    /\ Lower(text[i + 1]) = "(write"
    /\ Lower(text[i + 2]) = "in)"

\* An uncaught IndexError, as a slug no text produces.
Raise == <<"IndexError!">>

\* clean_value: Raise stands for the IndexError of words[0] on an empty text.
clean_value(text) ==
  IF MentionsOtherWriteIn(text) THEN <<"other">>
  ELSE IF text = <<>> THEN Raise
  ELSE IF HasColon(text[1]) THEN <<Slug(text[1])>>
  ELSE LET words == SubSeqTo(text, 3)
       IN [i \in 1..Len(words) |-> Slug(words[i])]

(***************************************************************************)
(* Lines of the phase-2 text format.                                       *)
(***************************************************************************)
Line(k) ==
  [kind |-> k, sid |-> "", titled |-> FALSE, qid |-> "", tok |-> <<>>,
   indent |-> 0, label |-> <<>>, type_raw |-> <<>>, colon |-> FALSE,
   rest |-> <<>>]

\* "SECTION s1 — TITLE (...)"  (titled)   or   "SECTION s1"
SectionLine(sid, titled) == [Line("section") EXCEPT !.sid = sid, !.titled = titled]
\* "q01 — Title (tok)"; tok = <<>> when the header has no parenthetical
QuestionLine(qid, tok) == [Line("qheader") EXCEPT !.qid = qid, !.tok = tok]
\* "Prompt: <text>"
PromptLine(text) == [Line("prompt") EXCEPT !.label = text]
OptionsLine == Line("options")
FieldsLine == Line("fields")
ShowWhenLine == Line("showwhen")
\* "Implementation notes: ..."
ImplNotesLine == Line("impl_notes")
\* a text line that contains "answer_schema"
SchemaNoteLine == Line("schema_note")
BlankLine == Line("blank")
TextLine == Line("text")
\* "- Label (type): a, b" with `indent` leading spaces
DashLine(indent, label, type_raw, colon, rest) ==
  [Line("dash") EXCEPT !.indent = indent, !.label = label,
                       !.type_raw = type_raw, !.colon = colon, !.rest = rest]

\* The text after the dash, as words.
Content(line) ==
  line.label \o line.type_raw \o Flatten(line.rest)

\* `name in annotation.lower()` for a parenthetical annotation
Contains(tok, name) == \E i \in 1..Len(tok) : Lower(tok[i]) = name

(***************************************************************************)
(* convert_questions.parse_fields                                          *)
(***************************************************************************)
Field(key, label, type) ==
  [key |-> key, label |-> label, type |-> type, has_options |-> FALSE,
   options |-> <<>>]

\* key = base_key; counter = 2; while key in existing_keys: key = base_counter
RECURSIVE SuffixKey(_, _, _)
SuffixKey(base_key, existing_keys, counter) ==
  LET key == base_key \o <<NumStr(counter)>>
  IN IF key \in existing_keys
       THEN SuffixKey(base_key, existing_keys, counter + 1)
       ELSE key

UniqueKey(base_key, existing_keys) ==
  IF base_key \in existing_keys
    THEN SuffixKey(base_key, existing_keys, 2)
    ELSE base_key

\* The type chain of a labelled field line (lines 143-151).
FieldType(type_raw) ==
  IF type_raw = <<>> THEN "short_text"
  ELSE IF Contains(type_raw, "single_select") THEN "single_select"
  ELSE IF Contains(type_raw, "multi_select") THEN "multi_select"
  ELSE IF Contains(type_raw, "ranked_select") THEN "ranked_select"
  ELSE IF Contains(type_raw, "number") THEN "number"
  ELSE IF Contains(type_raw, "free_text") THEN "free_text"
  ELSE "short_text"

\* [{"value": clean_value(o), "label": o} for o in opts]
InlineOptions(rest) ==
  [i \in 1..Len(rest) |-> [value |-> clean_value(rest[i]), label |-> rest[i]]]

AnyRaise(options) == \E i \in 1..Len(options) : options[i].value = Raise

\* "notes" in list(label_raw.lower().split())
HasNotesWord(label) == \E i \in 1..Len(label) : Lower(label[i]) = "notes"

\* "optional" in label_raw.lower()
MentionsOptional(label) ==
  \E i \in 1..Len(label) : Lower(label[i]) \in {"optional", "(optional)"}

\* State of the loop of parse_fields before its first line.
FieldsStart ==
  [fields |-> <<>>, current_field |-> <<>>, existing_keys |-> {},
   stopped |-> FALSE, raised |-> FALSE]

\* The branch for a label-less field line "- (type): a, b" (lines 86-119).
LabellessField(st, line) ==
  LET key == UniqueKey(<<"choice">>, st.existing_keys)
      f == Field(key, <<"Options">>, FieldType(line.type_raw))
      opts == InlineOptions(line.rest)
  IN [st EXCEPT
        !.fields = st.fields \o st.current_field,
        !.existing_keys = st.existing_keys \cup {key},
        !.current_field =
           IF line.rest # <<>>
             THEN <<[f EXCEPT !.has_options = TRUE, !.options = opts]>>
             ELSE <<f>>,
        !.raised = line.rest # <<>> /\ AnyRaise(opts)]

\* The branch for a labelled field line "- Label (type): a, b" (lines 122-170).
LabelledField(st, line) ==
  LET base == clean_key(line.label)
      base_key == IF base = <<>> THEN <<"field">> ELSE base
      unique == UniqueKey(base_key, st.existing_keys)
      notes == HasNotesWord(line.label)
      key == IF notes THEN <<"notes">> ELSE unique
      label == IF notes /\ MentionsOptional(line.label)
                 THEN <<"Notes">> ELSE line.label
      ftype == IF notes THEN "free_text" ELSE FieldType(line.type_raw)
      f == Field(key, label, ftype)
      withOpts == line.rest # <<>> /\ ftype \in {"single_select", "multi_select"}
      opts == InlineOptions(line.rest)
  IN [st EXCEPT
        !.fields = st.fields \o st.current_field,
        !.existing_keys = st.existing_keys \cup {unique},
        !.current_field =
           IF withOpts
             THEN <<[f EXCEPT !.has_options = TRUE, !.options = opts]>>
             ELSE <<f>>,
        !.raised = withOpts /\ AnyRaise(opts)]

\* One iteration of `for line in lines` of parse_fields.
ParseFieldsStep(st, line) ==
  IF st.stopped \/ st.raised \/ line.kind = "blank" THEN st
  ELSE IF line.kind \in {"impl_notes", "schema_note"}
    THEN [st EXCEPT !.stopped = TRUE]
  ELSE IF line.kind # "dash" THEN st
  ELSE IF line.indent >= 2 /\ Content(line) # <<>> /\ st.current_field # <<>>
    THEN LET cf == st.current_field[1]
             value == clean_value(Content(line))
             opt == [value |-> value, label |-> Content(line)]
         IN [st EXCEPT
               !.current_field =
                  <<[cf EXCEPT !.has_options = TRUE,
                               !.options = Append(cf.options, opt)]>>,
               !.raised = (value = Raise)]
  ELSE IF line.indent # 0 THEN st
  ELSE IF line.label = <<>> /\ line.type_raw # <<>> /\ line.colon
    THEN LabellessField(st, line)
  ELSE IF line.label # <<>> THEN LabelledField(st, line)
  ELSE st

RECURSIVE ParseFieldsLoop(_, _)
ParseFieldsLoop(st, lines) ==
  IF lines = <<>> THEN st
  ELSE ParseFieldsLoop(ParseFieldsStep(st, Head(lines)), Tail(lines))

\* The tail of parse_fields: the last field started is appended.
ParseFieldsEnd(st) == st.fields \o st.current_field

\* Whether parse_fields(lines) raises (clean_value on an empty option text).
FieldsRaise(lines) == ParseFieldsLoop(FieldsStart, lines).raised

\* parse_fields(lines), where it returns.
parse_fields(lines) == ParseFieldsEnd(ParseFieldsLoop(FieldsStart, lines))

(***************************************************************************)
(* convert_questions.process_question_block                                *)
(***************************************************************************)
LITE_IDS ==
  {"q01", "q02", "q03", "q05", "q06", "q07", "q08", "q09", "q10", "q11",
   "q14", "q16", "q19", "q20", "q22", "q24", "q25", "q28", "q29", "q33",
   "q37", "q39"}

\* int(qid[1:]) on the ids of the model
OrderOf(qid) ==
  CASE qid = "q01" -> 1
    [] qid = "q1" -> 1
    [] qid = "q02" -> 2
    [] qid = "q04" -> 4
    [] qid = "q30" -> 30
    [] OTHER -> 99

\* qtype: lines 198-202.  type_str is the lower-cased parenthetical of the
\* header, "free_text" when there is none.
QType(tok) ==
  LET type_str == IF tok = <<>> THEN <<"free_text">> ELSE tok
  IN IF Contains(type_str, "compound") THEN "compound"
     ELSE IF Contains(type_str, "single_select") THEN "single_select"
     ELSE IF Contains(type_str, "multi_select") THEN "multi_select"
     ELSE IF Contains(type_str, "ranked_select") THEN "compound"
     ELSE "free_text"

\* State of `for line in block[1:]` before its first line.
BodyStart ==
  [prompt |-> <<>>, options |-> <<>>, mode |-> "prompt", field_lines |-> <<>>,
   stopped |-> FALSE, raised |-> FALSE]

\* One iteration of `for line in block[1:]` (lines 211-245).
BodyStep(st, line) ==
  IF st.stopped \/ st.raised \/ line.kind = "blank" THEN st
  ELSE IF line.kind = "prompt" THEN [st EXCEPT !.prompt = line.label]
  ELSE IF line.kind = "options" THEN [st EXCEPT !.mode = "options"]
  ELSE IF line.kind = "fields" THEN [st EXCEPT !.mode = "fields"]
  ELSE IF line.kind = "showwhen" THEN [st EXCEPT !.mode = "show_when"]
  ELSE IF line.kind = "impl_notes" THEN [st EXCEPT !.stopped = TRUE]
  ELSE IF st.mode = "options"
    THEN IF line.kind = "dash"
           THEN LET value == clean_value(Content(line))
                IN [st EXCEPT
                      !.options = Append(st.options,
                                    [value |-> value, label |-> Content(line)]),
                      !.raised = (value = Raise)]
           ELSE st
  ELSE IF st.mode = "fields"
    THEN [st EXCEPT !.field_lines = Append(st.field_lines, line)]
  ELSE st

RECURSIVE BodyLoop(_, _)
BodyLoop(st, lines) ==
  IF lines = <<>> THEN st
  ELSE BodyLoop(BodyStep(st, Head(lines)), Tail(lines))

\* fields_data = parse_fields(field_lines) if field_lines else []
FieldsData(st) ==
  IF st.field_lines = <<>> THEN <<>> ELSE parse_fields(st.field_lines)

\* The compound branch of the answer schema (lines 261-266).
RECURSIVE CompoundSchema(_, _)
CompoundSchema(schema, fields) ==
  IF fields = <<>> THEN schema
  ELSE LET f == Head(fields)
       IN CompoundSchema(
            Put(schema, f.key,
                IF f.type = "multi_select" \/ f.type = "ranked_select"
                  THEN EmptyList ELSE EmptyString),
            Tail(fields))

\* answer_schema: lines 250-266.
AnswerSchema(qtype, fields_data) ==
  IF qtype = "free_text"
    THEN Put(EmptyDict, <<"text">>, EmptyString)
  ELSE IF qtype = "single_select"
    THEN Put(Put(Put(EmptyDict, <<"selected", "value">>, EmptyString),
                 <<"other", "text">>, EmptyString), <<"notes">>, EmptyString)
  ELSE IF qtype = "multi_select"
    THEN Put(Put(Put(EmptyDict, <<"selected", "values">>, EmptyList),
                 <<"other", "text">>, EmptyString), <<"notes">>, EmptyString)
  ELSE IF qtype = "compound"
    THEN CompoundSchema(EmptyDict, fields_data)
  ELSE EmptyDict

\* The tags of a parser that puts every question into both manifests.
Tags_AllLite(qid) == <<"lite", "full">>

\* tags = ["lite", "full"] if qid in LITE_IDS else ["full"]
Tags(qid) == IF qid \in LITE_IDS THEN <<"lite", "full">> ELSE <<"full">>

\* Whether process_question_block(block, _) raises instead of returning.
BlockRaises(block) ==
  LET st == BodyLoop(BodyStart, Tail(block))
  IN block[1].kind = "qheader" /\ (st.raised \/ FieldsRaise(st.field_lines))

\* process_question_block(block, current_section_id) where it returns:
\* <<q_obj>>, or <<>> for None.  `has` is the key set of the JSON object.
process_question_block(block, current_section_id) ==
  LET header == block[1]
      qid == header.qid
      qtype == QType(header.tok)
      st == BodyLoop(BodyStart, Tail(block))
      fields_data == FieldsData(st)
  IN IF header.kind # "qheader" THEN <<>>
     ELSE <<[id |-> qid,
             section_id |-> current_section_id,
             order |-> OrderOf(qid),
             title |-> "Title",
             prompt |-> st.prompt,
             type |-> qtype,
             answer_schema |-> AnswerSchema(qtype, fields_data),
             tags |-> Tags(qid),
             options |-> st.options,
             fields |-> fields_data,
             has |-> {"id", "section_id", "order", "title", "prompt", "type",
                      "answer_schema", "tags"}
                     \cup (IF st.options # <<>> THEN {"options"} ELSE {})
                     \cup (IF fields_data # <<>> THEN {"fields"} ELSE {})
                     \cup (IF qid = "q30" THEN {"showWhen"} ELSE {})]>>

(***************************************************************************)
(* convert_questions.split_into_blocks and main                            *)
(***************************************************************************)
\* One iteration of `for line in lines` of split_into_blocks (lines 302-315).
\* A line "SECTION s..." whose code is not s<digits> has sid = "".
SplitStep(c, line) ==
  IF line.kind = "section"
    THEN IF line.sid # "" THEN [c EXCEPT !.current_section = line.sid] ELSE c
  ELSE IF line.kind = "qheader"
    THEN [c EXCEPT
            !.blocks = IF c.current_block # <<>>
                         THEN Append(c.blocks, <<c.current_block, c.current_section>>)
                         ELSE c.blocks,
            !.current_block = <<line>>]
  ELSE IF c.current_block # <<>>
    THEN [c EXCEPT !.current_block = Append(c.current_block, line)]
  ELSE c

\* After the loop (lines 317-320): the block being collected is the last one.
SplitFlush(c) ==
  IF c.current_block # <<>>
    THEN [c EXCEPT !.blocks = Append(c.blocks, <<c.current_block, c.current_section>>)]
    ELSE c

\* A main whose loop is left at the first block that raises.
MainStep_AbortAfterRaise(c, block_lines, section_id) ==
  IF c.errors # <<>> THEN c
  ELSE IF BlockRaises(block_lines)
    THEN [c EXCEPT !.errors = Append(c.errors, c.blockNo)]
  ELSE LET q_data == process_question_block(block_lines, section_id)
       IN IF q_data = <<>> THEN c
          ELSE [c EXCEPT !.files = Put(c.files, q_data[1].id, q_data[1]),
                         !.generated = Append(c.generated, q_data[1])]

\* One iteration of `for block_lines, section_id in blocks` of main
\* (lines 335-345): the question is written to <id>.json, or the exception
\* of the block is caught and reported.
MainStep(c, block_lines, section_id) ==
  IF BlockRaises(block_lines)
    THEN [c EXCEPT !.errors = Append(c.errors, c.blockNo)]
  ELSE LET q_data == process_question_block(block_lines, section_id)
       IN IF q_data = <<>> THEN c
          ELSE [c EXCEPT !.files = Put(c.files, q_data[1].id, q_data[1]),
                         !.generated = Append(c.generated, q_data[1])]

ConvStart(txt) ==
  [txt |-> txt, lineNo |-> 1, blocks |-> <<>>, current_block |-> <<>>,
   current_section |-> "s1", blockNo |-> 1, files |-> EmptyDict,
   generated |-> <<>>, errors |-> <<>>]

SplitLine ==
  /\ pc = "split"
  /\ conv.lineNo <= Len(conv.txt)
  /\ conv' = [SplitStep(conv, conv.txt[conv.lineNo]) EXCEPT !.lineNo = conv.lineNo + 1]
  /\ UNCHANGED <<pc, agg, pm, pf, val, phase_dir>>

SplitEnd ==
  /\ pc = "split"
  /\ conv.lineNo > Len(conv.txt)
  /\ conv' = SplitFlush(conv)
  /\ pc' = IF conv'.blocks = <<>> THEN "agg_start" ELSE "process"
  /\ UNCHANGED <<agg, pm, pf, val, phase_dir>>

ProcessBlock ==
  /\ pc = "process"
  /\ conv.blockNo <= Len(conv.blocks)
  /\ LET b == conv.blocks[conv.blockNo]
     IN conv' = [MainStep(conv, b[1], b[2]) EXCEPT !.blockNo = conv.blockNo + 1]
  /\ pc' = IF conv.blockNo = Len(conv.blocks) THEN "agg_start" ELSE "process"
  /\ UNCHANGED <<agg, pm, pf, val, phase_dir>>

(***************************************************************************)
(* aggregate_questions                                                     *)
(***************************************************************************)
\* re.match(r'SECTION (s\d+) — (.+)', line)
IsSectionHeader(line) == line.kind = "section" /\ line.sid # "" /\ line.titled

\* parse_sections(txt_path)
parse_sections(txt) ==
  LET heads == SelectSeq(txt, IsSectionHeader)
  IN [i \in 1..Len(heads) |->
        [id |-> heads[i].sid, title |-> "TITLE", question_ids |-> <<>>]]

\* Position of "<qid>.json" in the sorted directory listing.
FileRank(qid) ==
  CASE qid = "q01" -> 1
    [] qid = "q02" -> 2
    [] qid = "q04" -> 3
    [] qid = "q1" -> 4
    [] qid = "q30" -> 5
    [] OTHER -> 6

\* sorted([f for f in os.listdir(QUESTIONS_DIR) if f.endswith('.json')])
RECURSIVE SortedFiles(_)
SortedFiles(names) ==
  IF names = {} THEN <<>>
  ELSE LET first == CHOOSE n \in names : \A m \in names : FileRank(n) <= FileRank(m)
       IN <<first>> \o SortedFiles(names \ {first})

\* section_map = {s['id']: s for s in sections}: the last section of an id.
InSectionMap(sections, sid) == \E i \in 1..Len(sections) : sections[i].id = sid

SectionMap(sections, sid) ==
  CHOOSE i \in 1..Len(sections) :
    /\ sections[i].id = sid
    /\ \A j \in 1..Len(sections) : sections[j].id = sid => j <= i

\* aggregate main() forgetting to store a question whose section is known.
AggAddQuestion_SectionOnly(a, q_data) ==
  LET qid == q_data.id
      sid == q_data.section_id
  IN IF InSectionMap(a.sections, sid)
       THEN LET i == SectionMap(a.sections, sid)
            IN [a EXCEPT
                  !.sections[i].question_ids = Append(a.sections[i].question_ids, qid)]
       ELSE [a EXCEPT
               !.questions_map = Put(a.questions_map, qid, q_data),
               !.keys = IF qid \in Range(a.keys) THEN a.keys ELSE Append(a.keys, qid),
               !.warnings = Append(a.warnings, qid)]

\* The body of `for f in files` (lines 56-70) for the question read from f.
AggAddQuestion(a, q_data) ==
  LET qid == q_data.id
      sid == q_data.section_id
      added == [a EXCEPT
                  !.questions_map = Put(a.questions_map, qid, q_data),
                  !.keys = IF qid \in Range(a.keys) THEN a.keys
                           ELSE Append(a.keys, qid)]
  IN IF InSectionMap(a.sections, sid)
       THEN LET i == SectionMap(a.sections, sid)
            IN [added EXCEPT
                  !.sections[i].question_ids = Append(a.sections[i].question_ids, qid)]
       ELSE [added EXCEPT !.warnings = Append(a.warnings, qid)]

\* sorted(keys, key=order): Python's sort is stable.
RECURSIVE InsertByOrder(_, _, _)
InsertByOrder(sorted, qid, questions_map) ==
  IF sorted = <<>> THEN <<qid>>
  ELSE IF questions_map[qid].order < questions_map[Head(sorted)].order
    THEN <<qid>> \o sorted
    ELSE <<Head(sorted)>> \o InsertByOrder(Tail(sorted), qid, questions_map)

\* The question ids left in the order in which the files were read.
SortByOrder_AsRead(keys, questions_map) == keys

RECURSIVE SortByOrder(_, _)
SortByOrder(keys, questions_map) ==
  IF keys = <<>> THEN <<>>
  ELSE InsertByOrder(SortByOrder(SubSeq(keys, 1, Len(keys) - 1), questions_map),
                     keys[Len(keys)], questions_map)

\* The ids of sorted_qids whose tags name the manifest (lines 79-84).
RECURSIVE ManifestIds(_, _, _)
ManifestIds(sorted_qids, questions_map, name) ==
  IF sorted_qids = <<>> THEN <<>>
  ELSE LET qid == Head(sorted_qids)
           tags == IF "tags" \in questions_map[qid].has
                     THEN questions_map[qid].tags ELSE <<>>
           more == ManifestIds(Tail(sorted_qids), questions_map, name)
       IN IF name \in Range(tags) THEN <<qid>> \o more ELSE more

\* Steps 3-5 of main: the manifests of the final output.
BuildManifests(a) ==
  LET sorted_qids == SortByOrder(a.keys, a.questions_map)
  IN [lite |-> [id |-> "lite",
                question_ids |-> ManifestIds(sorted_qids, a.questions_map, "lite"),
                timebox_minutes |-> 30],
      full |-> [id |-> "full",
                question_ids |-> ManifestIds(sorted_qids, a.questions_map, "full"),
                timebox_minutes |-> 60]]

AggStart ==
  /\ pc = "agg_start"
  /\ agg' = [sections |-> parse_sections(conv.txt),
             files |-> SortedFiles(DOMAIN conv.files),
             fileNo |-> 1,
             questions_map |-> EmptyDict,
             keys |-> <<>>,
             warnings |-> <<>>,
             manifests |-> EmptyDict]
  /\ pc' = IF DOMAIN conv.files = {} THEN "agg_manifests" ELSE "agg_read"
  /\ UNCHANGED <<conv, pm, pf, val, phase_dir>>

AggReadFile ==
  /\ pc = "agg_read"
  /\ agg.fileNo <= Len(agg.files)
  /\ agg' = [AggAddQuestion(agg, conv.files[agg.files[agg.fileNo]])
               EXCEPT !.fileNo = agg.fileNo + 1]
  /\ pc' = IF agg.fileNo = Len(agg.files) THEN "agg_manifests" ELSE "agg_read"
  /\ UNCHANGED <<conv, pm, pf, val, phase_dir>>

AggManifests ==
  /\ pc = "agg_manifests"
  /\ agg' = [agg EXCEPT !.manifests = BuildManifests(agg)]
  /\ pc' = "agg_done"
  /\ UNCHANGED <<conv, pm, pf, val, phase_dir>>

NextP2 ==
  \/ SplitLine
  \/ SplitEnd
  \/ ProcessBlock
  \/ AggStart
  \/ AggReadFile
  \/ AggManifests

(***************************************************************************)
(* Input documents of the phase-2 pipeline.                                *)
(***************************************************************************)
\* Structure runs: section headers, question headers and a body line.
P2StructLines ==
  {SectionLine("s1", TRUE), SectionLine("s2", TRUE), SectionLine("s2", FALSE),
   QuestionLine("q01", <<"single_select">>), QuestionLine("q04", <<>>),
   QuestionLine("q1", <<>>), PromptLine(<<"Mood">>)}

InitP2(docs) ==
  /\ pc = "split"
  /\ conv \in {ConvStart(txt) : txt \in docs}
  /\ agg = Idle
  /\ pm = Idle
  /\ pf = Idle
  /\ val = Idle
  /\ phase_dir = Idle

InitP2Struct == InitP2(SeqsUpTo(P2StructLines, MaxLines))


(***************************************************************************)
(* scripts/convert_questions_md.py                                         *)
(***************************************************************************)
MdLine(k) ==
  [kind |-> k, num |-> "", mode |-> "", word |-> "", key |-> <<>>,
   type_info |-> <<>>]

\* "## Section <num>: Title"
MdSectionLine(num) == [MdLine("section") EXCEPT !.num = num]
\* "### Q<num> [LITE|FULL] — Title"
MdQuestionLine(num, mode) == [MdLine("question") EXCEPT !.num = num, !.mode = mode]
\* "**Type**: <word>"
MdTypeLine(word) == [MdLine("type") EXCEPT !.word = word]
\* "**Prompt**: "...""
MdPromptLine == [MdLine("prompt") EXCEPT !.word = "Prompt"]
MdOptionsLine == MdLine("options")
MdFieldsLine == MdLine("fields")
MdExamplesLine == MdLine("examples")
\* "- `value`: "Label""
MdOptionLine(value) == [MdLine("opt") EXCEPT !.word = value]
\* "- "an example""
MdExampleLine(text) == [MdLine("example") EXCEPT !.word = text]
\* "1. `key` (type_info): "Label""
MdFieldLine(key, type_info) ==
  [MdLine("field") EXCEPT !.key = key, !.type_info = type_info]
\* "---"
MdRuleLine == MdLine("rule")
MdTextLine == MdLine("text")

\* f"q{q_num.zfill(2)}"
MdQuestionId(num) ==
  CASE num = "1" -> "q01"
    [] num = "01" -> "q01"
    [] num = "2" -> "q02"
    [] num = "02" -> "q02"
    [] OTHER -> "q99"

\* line.strip().startswith("**")
StartsBold(line) ==
  line.kind \in {"type", "prompt", "options", "fields", "examples"}

\* The type chain of parse_question_content (lines 436-452).
MdFieldType(type_info) ==
  IF Contains(type_info, "ranked_select") THEN "ranked_select"
  ELSE IF Contains(type_info, "multi_select") THEN "multi_select"
  ELSE IF Contains(type_info, "single_select") THEN "single_select"
  ELSE IF Contains(type_info, "number") THEN "number"
  ELSE IF Contains(type_info, "free_text") THEN "free_text"
  ELSE "short_text"

\* The compound branch of generate_answer_schema (lines 95-103).
RECURSIVE MdCompoundSchema(_, _)
MdCompoundSchema(schema, fields) ==
  IF fields = <<>> THEN schema
  ELSE LET f == Head(fields)
       IN MdCompoundSchema(
            Put(schema, f.key,
                IF f.type \in {"multi_select", "ranked_select"} THEN EmptyList
                ELSE IF f.type = "number" THEN Zero
                ELSE EmptyString),
            Tail(fields))

\* generate_answer_schema giving a number field the empty string.
generate_answer_schema_NumberAsText(q_type, fields) ==
  IF q_type = "free_text"
    THEN Put(EmptyDict, <<"text">>, EmptyString)
  ELSE IF q_type = "single_select"
    THEN Put(Put(Put(EmptyDict, <<"selected", "value">>, EmptyString),
                 <<"other", "text">>, EmptyString), <<"notes">>, EmptyString)
  ELSE IF q_type = "multi_select"
    THEN Put(Put(Put(EmptyDict, <<"selected", "values">>, EmptyList),
                 <<"other", "text">>, EmptyString), <<"notes">>, EmptyString)
  ELSE IF q_type = "compound" /\ fields # <<>>
    THEN [k \in DOMAIN MdCompoundSchema(EmptyDict, fields) |->
            IF MdCompoundSchema(EmptyDict, fields)[k] = Zero
              THEN EmptyString ELSE MdCompoundSchema(EmptyDict, fields)[k]]
  ELSE Put(EmptyDict, <<"text">>, EmptyString)

\* generate_answer_schema(q_type, fields, options)
generate_answer_schema(q_type, fields) ==
  IF q_type = "free_text"
    THEN Put(EmptyDict, <<"text">>, EmptyString)
  ELSE IF q_type = "single_select"
    THEN Put(Put(Put(EmptyDict, <<"selected", "value">>, EmptyString),
                 <<"other", "text">>, EmptyString), <<"notes">>, EmptyString)
  ELSE IF q_type = "multi_select"
    THEN Put(Put(Put(EmptyDict, <<"selected", "values">>, EmptyList),
                 <<"other", "text">>, EmptyString), <<"notes">>, EmptyString)
  ELSE IF q_type = "compound" /\ fields # <<>>
    THEN MdCompoundSchema(EmptyDict, fields)
  ELSE Put(EmptyDict, <<"text">>, EmptyString)

\* re.search(r'\*\*Type\*\*:\s*(\w+)', content): the first Type line.
RECURSIVE MdDeclaredType(_)
MdDeclaredType(lines) ==
  IF lines = <<>> THEN "free_text"
  ELSE IF Head(lines).kind = "type" THEN Lower(Head(lines).word)
  ELSE MdDeclaredType(Tail(lines))

\* The loop collecting the top-level options (lines 382-394).
RECURSIVE MdOptions(_, _)
MdOptions(lines, in_options) ==
  IF lines = <<>> THEN <<>>
  ELSE LET line == Head(lines)
       IN IF line.kind = "options" THEN MdOptions(Tail(lines), TRUE)
          ELSE IF in_options /\ line.kind = "opt"
            THEN <<[value |-> line.word, label |-> line.word]>>
                   \o MdOptions(Tail(lines), TRUE)
          ELSE IF in_options /\ (StartsBold(line) \/ line.kind = "rule")
            THEN MdOptions(Tail(lines), FALSE)
          ELSE MdOptions(Tail(lines), in_options)

MdFieldsStart ==
  [fields |-> <<>>, in_fields |-> FALSE, current_field |-> <<>>]

\* One iteration of the loop collecting the fields (lines 405-486).
MdFieldsStep(st, line) ==
  IF line.kind = "fields" THEN [st EXCEPT !.in_fields = TRUE]
  ELSE IF ~st.in_fields THEN st
  ELSE IF line.kind = "field"
    THEN [st EXCEPT
            !.fields = st.fields \o st.current_field,
            !.current_field = <<Field(line.key, line.key, MdFieldType(line.type_info))>>]
  ELSE IF line.kind = "opt" /\ st.current_field # <<>>
    THEN LET cf == st.current_field[1]
         IN [st EXCEPT
               !.current_field =
                  <<[cf EXCEPT !.has_options = TRUE,
                               !.options = Append(cf.options,
                                  [value |-> line.word, label |-> line.word])]>>]
  ELSE IF StartsBold(line) \/ line.kind = "rule"
    THEN [st EXCEPT !.fields = st.fields \o st.current_field,
                    !.current_field = <<>>,
                    !.in_fields = FALSE]
  ELSE st

RECURSIVE MdFieldsLoop(_, _)
MdFieldsLoop(st, lines) ==
  IF lines = <<>> THEN st
  ELSE MdFieldsLoop(MdFieldsStep(st, Head(lines)), Tail(lines))

MdFields(lines) ==
  LET st == MdFieldsLoop(MdFieldsStart, lines)
  IN st.fields \o st.current_field

\* The loop collecting the examples (lines 499-510).
RECURSIVE MdExamples(_, _)
MdExamples(lines, in_examples) ==
  IF lines = <<>> THEN <<>>
  ELSE LET line == Head(lines)
       IN IF line.kind = "examples" THEN MdExamples(Tail(lines), TRUE)
          ELSE IF in_examples /\ line.kind \in {"opt", "example"}
            THEN <<line.word>> \o MdExamples(Tail(lines), TRUE)
          ELSE IF in_examples /\ (StartsBold(line) \/ line.kind = "rule")
            THEN MdExamples(Tail(lines), FALSE)
          ELSE MdExamples(Tail(lines), in_examples)

\* re.search of the first Prompt line
MdPrompt(lines) ==
  IF \E i \in 1..Len(lines) : lines[i].kind = "prompt" THEN "Prompt" ELSE ""

\* parse_question_content(block_data, section_id, order)
parse_question_content(data, section_id) ==
  LET options == MdOptions(data.lines, FALSE)
      fields == MdFields(data.lines)
      type == IF fields # <<>> THEN "compound" ELSE MdDeclaredType(data.lines)
  IN [id |-> data.q_id,
      section_id |-> section_id,
      order |-> data.order,
      title |-> "Title",
      prompt |-> MdPrompt(data.lines),
      type |-> type,
      answer_schema |-> generate_answer_schema(type, fields),
      examples |-> MdExamples(data.lines, FALSE),
      tags |-> IF data.is_lite THEN <<"lite", "full">> ELSE <<"full">>,
      options |-> options,
      fields |-> fields,
      has |-> {"id", "section_id", "order", "title", "prompt", "type",
               "answer_schema", "examples", "tags"}
              \cup (IF options # <<>> THEN {"options"} ELSE {})
              \cup (IF fields # <<>> THEN {"fields"} ELSE {})]

\* "Save previous question" (lines 255-261 at a section header, where the
\* section list is left alone; lines 275-282 and 301-308 elsewhere).
MdSave(p, to_section) ==
  IF p.current_question_block # <<>> /\ p.current_section_id # ""
    THEN LET q == parse_question_content(p.current_question_block[1],
                                         p.current_section_id)
             n == Len(p.sections)
         IN [p EXCEPT
               !.questions = Put(p.questions, q.id, q),
               !.sections = IF to_section
                              THEN [p.sections EXCEPT ![n].question_ids =
                                      Append(p.sections[n].question_ids, q.id)]
                              ELSE p.sections,
               !.lite_ids = IF "lite" \in Range(q.tags)
                              THEN Append(p.lite_ids, q.id) ELSE p.lite_ids,
               !.full_ids = Append(p.full_ids, q.id)]
    ELSE p

\* One iteration of `for line in content.split('\n')` (lines 249-298).
MdStep(p, line) ==
  IF line.kind = "section"
    THEN LET saved == MdSave(p, FALSE)
             sid == "s" \o line.num
         IN [saved EXCEPT
               !.current_question_block = <<>>,
               !.current_section_id = sid,
               !.sections = Append(saved.sections,
                              [id |-> sid, title |-> "Title", question_ids |-> <<>>])]
  ELSE IF line.kind = "question"
    THEN LET saved == MdSave(p, TRUE)
         IN [saved EXCEPT
               !.order = p.order + 1,
               !.current_question_block =
                  <<[q_id |-> MdQuestionId(line.num),
                     is_lite |-> (line.mode = "LITE"),
                     order |-> p.order + 1,
                     section_id |-> p.current_section_id,
                     lines |-> <<>>]>>]
  ELSE IF p.current_question_block # <<>>
    THEN [p EXCEPT !.current_question_block[1].lines =
                      Append(p.current_question_block[1].lines, line)]
  ELSE p

MdStart(content) ==
  [content |-> content, lineNo |-> 1, sections |-> <<>>, questions |-> EmptyDict,
   lite_ids |-> <<>>, full_ids |-> <<>>, current_section_id |-> "",
   current_question_block |-> <<>>, order |-> 0, manifests |-> EmptyDict]

MdParseLine ==
  /\ pc = "md_loop"
  /\ pm.lineNo <= Len(pm.content)
  /\ pm' = [MdStep(pm, pm.content[pm.lineNo]) EXCEPT !.lineNo = pm.lineNo + 1]
  /\ UNCHANGED <<pc, conv, agg, pf, val, phase_dir>>

\* "Save last question" and the returned document (lines 300-348).
MdFinish ==
  /\ pc = "md_loop"
  /\ pm.lineNo > Len(pm.content)
  /\ LET saved == MdSave(pm, TRUE)
     IN pm' = [saved EXCEPT
                 !.manifests =
                    [lite |-> [id |-> "lite", question_ids |-> saved.lite_ids,
                               timebox_minutes |-> 60],
                     full |-> [id |-> "full", question_ids |-> saved.full_ids,
                               timebox_minutes |-> 120]]]
  /\ pc' = "md_done"
  /\ UNCHANGED <<conv, agg, pf, val, phase_dir>>

NextMd ==
  \/ MdParseLine
  \/ MdFinish

MdStructLines ==
  {MdSectionLine("1"), MdSectionLine("2"), MdQuestionLine("1", "LITE"),
   MdQuestionLine("01", "FULL"), MdQuestionLine("2", "FULL"), MdTextLine}

InitMd(docs) ==
  /\ pc = "md_loop"
  /\ pm \in {MdStart(content) : content \in docs}
  /\ conv = Idle
  /\ agg = Idle
  /\ pf = Idle
  /\ val = Idle
  /\ phase_dir = Idle

InitMdStruct == InitMd(SeqsUpTo(MdStructLines, MaxLines))

\* Both parsers on structure documents.
SpecStruct == (InitP2Struct \/ InitMdStruct) /\ [][NextP2 \/ NextMd]_vars

(***************************************************************************)
(* Block runs: one question whose header annotation and body vary.         *)
(***************************************************************************)
HeaderToks ==
  {<<>>, <<"free_text">>, <<"single_select">>, <<"multi_select">>,
   <<"ranked_select">>, <<"compound">>, <<"Single_Select">>, <<"scale">>,
   <<"compound", "single_select">>}

P2BodyLines ==
  {PromptLine(<<"Mood">>), OptionsLine, FieldsLine, ShowWhenLine,
   ImplNotesLine, SchemaNoteLine,
   DashLine(0, <<"Yes">>, <<>>, FALSE, <<>>),
   DashLine(0, <<>>, <<>>, FALSE, <<>>),
   DashLine(2, <<"No">>, <<>>, FALSE, <<>>),
   DashLine(0, <<"Mood">>, <<"multi_select">>, TRUE, << <<"Yes">>, <<"No">> >>),
   DashLine(0, <<"Optional", "notes">>, <<"number">>, FALSE, <<>>),
   DashLine(0, <<"Notes!">>, <<"ranked_select">>, FALSE, <<>>),
   DashLine(0, <<>>, <<"single_select">>, TRUE, << <<"Yes">> >>)}

\* Bodies of the blocks of a two-block document: none, a good and an empty
\* option line, a field with a good and with an empty inline option.
P2ShortBodies ==
  {<<>>,
   <<OptionsLine, DashLine(0, <<"Yes">>, <<>>, FALSE, <<>>)>>,
   <<OptionsLine, DashLine(0, <<>>, <<>>, FALSE, <<>>)>>,
   <<FieldsLine, DashLine(0, <<"Mood">>, <<"single_select">>, TRUE, << <<"Yes">> >>)>>,
   <<FieldsLine,
     DashLine(0, <<"Mood">>, <<"single_select">>, TRUE, << <<"Yes">>, <<>> >>)>>}

P2BlockDocs ==
  {<<QuestionLine("q01", tok)>> \o body :
     tok \in HeaderToks, body \in SeqsUpTo(P2BodyLines, 1)}
  \cup
  {<<QuestionLine("q04", tok)>> \o body :
     tok \in {<<"compound">>, <<"single_select">>},
     body \in SeqsUpTo(P2BodyLines, MaxBody)}
  \cup
  {<<QuestionLine("q01", t1)>> \o b1 \o <<QuestionLine("q04", t2)>> \o b2 :
     t1 \in {<<"single_select">>, <<"scale">>}, t2 \in {<<"compound">>, <<>>},
     b1 \in P2ShortBodies, b2 \in P2ShortBodies}

MdBodyLines ==
  {MdTypeLine("single_select"), MdTypeLine("multi_select"),
   MdTypeLine("COMPOUND"), MdPromptLine, MdOptionsLine, MdOptionLine("a"),
   MdFieldsLine, MdFieldLine(<<"mood">>, <<"multi_select", "max 3">>),
   MdFieldLine(<<"mood">>, <<"number">>), MdExamplesLine, MdRuleLine}

MdBlockDocs ==
  {<<MdSectionLine("1"), MdQuestionLine("1", "LITE")>> \o body :
     body \in SeqsUpTo(MdBodyLines, MaxBody)}

InitP2Block == InitP2(P2BlockDocs)

InitMdBlock == InitMd(MdBlockDocs)

\* Both parsers on one question block.
SpecBlock == (InitP2Block \/ InitMdBlock) /\ [][NextP2 \/ NextMd]_vars

(***************************************************************************)
(* Fields runs: parse_fields on its own, one line per step.                *)
(***************************************************************************)
PfStart(lines) == [lines |-> lines, lineNo |-> 1, st |-> FieldsStart, fields |-> <<>>]

\* `for line in lines`: one line, up to the break or the uncaught exception.
PfLine ==
  /\ pc = "pf_loop"
  /\ pf.lineNo <= Len(pf.lines)
  /\ ~pf.st.stopped
  /\ pf' = [pf EXCEPT !.st = ParseFieldsStep(pf.st, pf.lines[pf.lineNo]),
                      !.lineNo = pf.lineNo + 1]
  /\ pc' = IF pf'.st.raised THEN "pf_raised" ELSE "pf_loop"
  /\ UNCHANGED <<conv, agg, pm, val, phase_dir>>

\* Lines 172-176: the loop is over (end of the lines, or break).
PfReturn ==
  /\ pc = "pf_loop"
  /\ pf.lineNo > Len(pf.lines) \/ pf.st.stopped
  /\ pf' = [pf EXCEPT !.fields = ParseFieldsEnd(pf.st)]
  /\ pc' = "pf_done"
  /\ UNCHANGED <<conv, agg, pm, val, phase_dir>>

NextPf ==
  \/ PfLine
  \/ PfReturn

FieldLines ==
  {DashLine(0, <<"Mood">>, <<"multi_select">>, TRUE, << <<"Yes">>, <<"No">> >>),
   DashLine(0, <<"Mood">>, <<>>, FALSE, <<>>),
   DashLine(0, <<"Mood", "2">>, <<"number">>, FALSE, <<>>),
   DashLine(0, <<"Notes">>, <<"optional">>, FALSE, <<>>),
   DashLine(0, <<"Optional", "notes">>, <<"number">>, FALSE, <<>>),
   DashLine(0, <<"Notes!">>, <<"ranked_select">>, FALSE, <<>>),
   DashLine(0, <<"Choice">>, <<>>, FALSE, <<>>),
   DashLine(0, <<>>, <<"single_select">>, TRUE, << <<"Yes">> >>),
   DashLine(2, <<"No">>, <<>>, FALSE, <<>>),
   DashLine(0, <<"Mood">>, <<"single_select">>, TRUE, << <<"Yes">>, <<>> >>),
   SchemaNoteLine,
   BlankLine}

InitPf ==
  /\ pc = "pf_loop"
  /\ pf \in {PfStart(lines) : lines \in SeqsUpTo(FieldLines, MaxFieldLines)}
  /\ conv = Idle
  /\ agg = Idle
  /\ pm = Idle
  /\ val = Idle
  /\ phase_dir = Idle

SpecFields == InitPf /\ [][NextPf]_vars

(***************************************************************************)
(* Properties of the parsers.                                              *)
(***************************************************************************)
\* Position in txt of the k-th question header line.
RECURSIVE HeaderLineNo(_, _, _)
HeaderLineNo(txt, k, from) ==
  IF txt[from].kind = "qheader"
    THEN IF k = 1 THEN from ELSE HeaderLineNo(txt, k - 1, from + 1)
    ELSE HeaderLineNo(txt, k, from + 1)

\* Id of the most recent SECTION header line before line n ("s1" if none).
RECURSIVE SectionBefore(_, _)
SectionBefore(txt, n) ==
  IF n <= 1 THEN "s1"
  ELSE IF txt[n - 1].kind = "section" /\ txt[n - 1].sid # ""
    THEN txt[n - 1].sid
    ELSE SectionBefore(txt, n - 1)

\* The blocks of main's loop that produce a question, in order.
RECURSIVE ProducingBlocks(_, _)
ProducingBlocks(blocks, k) ==
  IF k > Len(blocks) THEN <<>>
  ELSE (IF BlockRaises(blocks[k][1]) THEN <<>> ELSE <<k>>)
         \o ProducingBlocks(blocks, k + 1)

SplitOver == pc \in {"process", "agg_start", "agg_read", "agg_manifests", "agg_done"}

ConvertOver == pc \in {"agg_start", "agg_read", "agg_manifests", "agg_done"}

\* C2: every question produced by the phase-2 parser has as section_id the
\* id of the most recent SECTION header line before the question's own
\* header line ("s1" when there is none); a section header after the
\* question's header does not change it.
C2_SectionIsLastHeaderBefore ==
  SplitOver =>
    LET producing == ProducingBlocks(conv.blocks, 1)
    IN \A j \in 1..Len(conv.generated) :
         conv.generated[j].section_id =
           SectionBefore(conv.txt, HeaderLineNo(conv.txt, producing[j], 1))

\* Number of times x occurs in the sequence s.
Count(s, x) == Cardinality({i \in 1..Len(s) : s[i] = x})

NoDuplicates(s) == \A i, j \in 1..Len(s) : s[i] = s[j] => i = j

\* C3: each question of parse_markdown's questions map appears exactly once
\* in the question_ids of the sections whose id is the question's
\* section_id, and every section lists its questions in parse order.
C3_QuestionListedOnceInItsSection ==
  pc = "md_done" =>
    /\ \A qid \in DOMAIN pm.questions :
         Cardinality({<<i, j>> \in (1..Len(pm.sections)) \X (1..MaxLines + 1) :
                        /\ pm.sections[i].id = pm.questions[qid].section_id
                        /\ j <= Len(pm.sections[i].question_ids)
                        /\ pm.sections[i].question_ids[j] = qid}) = 1
    /\ \A i \in 1..Len(pm.sections) :
         LET ids == pm.sections[i].question_ids
         IN \A j, k \in 1..Len(ids) :
              (j < k /\ ids[j] \in DOMAIN pm.questions /\ ids[k] \in DOMAIN pm.questions)
                => pm.questions[ids[j]].order < pm.questions[ids[k]].order

\* Every id of every section and manifest is a key of the questions map.
RefsResolve(sections, manifests, questions) ==
  /\ \A i \in 1..Len(sections) :
       Range(sections[i].question_ids) \subseteq DOMAIN questions
  /\ \A m \in DOMAIN manifests :
       Range(manifests[m].question_ids) \subseteq DOMAIN questions

\* C4: in the record set produced by either parser (aggregate_questions.main,
\* parse_markdown) every id in a section's or a manifest's question_ids is a
\* key of the questions map.
C4_ParsedRefsResolve ==
  /\ pc = "agg_done" => RefsResolve(agg.sections, agg.manifests, agg.questions_map)
  /\ pc = "md_done" => RefsResolve(pm.sections, pm.manifests, pm.questions)

\* C4 witness: an aggregated document with a section listing two questions
\* and both manifests populated.
C4_Witness ==
  /\ pc = "agg_done"
  /\ \E i \in 1..Len(agg.sections) : Len(agg.sections[i].question_ids) = 2
  /\ Len(agg.manifests["lite"].question_ids) = 1
  /\ Len(agg.manifests["full"].question_ids) = 2

\* A question is in manifest m exactly when m is among its tags, once.
ManifestsMatchTags(manifests, questions) ==
  \A m \in {"lite", "full"} :
    /\ \A qid \in DOMAIN questions :
         qid \in Range(manifests[m].question_ids) <=> m \in Range(questions[qid].tags)
    /\ NoDuplicates(manifests[m].question_ids)

\* C5: in the output document a question is in manifests[m].question_ids
\* if and only if m is in its tags.included_in_manifests, and no id occurs
\* twice in a manifest's question_ids.
C5_ManifestIffTagged ==
  /\ pc = "agg_done" => ManifestsMatchTags(agg.manifests, agg.questions_map)
  /\ pc = "md_done" => ManifestsMatchTags(pm.manifests, pm.questions)

\* C7: no two question records produced by the phase-2 parser share an id,
\* and every block that yields a question keeps its own record on disk.
C7_QuestionIdsUnique ==
  ConvertOver =>
    /\ \A i, j \in 1..Len(conv.generated) :
         conv.generated[i].id = conv.generated[j].id => i = j
    /\ Cardinality(DOMAIN conv.files) = Len(conv.generated)

Vocabulary == {"free_text", "single_select", "multi_select", "ranked_select", "compound"}

\* Header annotation of the block that produced the j-th question.
HeaderTokOf(j) ==
  conv.blocks[ProducingBlocks(conv.blocks, 1)[j]][1][1].tok

\* C8: a header whose parenthetical is exactly one name of the closed type
\* vocabulary (in any letter case) yields a question of that type; no
\* parenthetical or an unrecognized one yields free_text; the type is always
\* in the vocabulary.
C8_HeaderSelectsType ==
  ConvertOver =>
    \A j \in 1..Len(conv.generated) :
      LET tok == HeaderTokOf(j)
          type == conv.generated[j].type
      IN /\ type \in Vocabulary
         /\ (Len(tok) = 1 /\ Lower(tok[1]) \in Vocabulary) => type = Lower(tok[1])
         /\ (\A i \in 1..Len(tok) : Lower(tok[i]) \notin Vocabulary) => type = "free_text"

TextSchema == Put(EmptyDict, <<"text">>, EmptyString)

SingleSchema ==
  [k \in {<<"selected", "value">>, <<"other", "text">>, <<"notes">>} |-> EmptyString]

MultiSchema ==
  [k \in {<<"selected", "values">>, <<"other", "text">>, <<"notes">>} |->
     IF k = <<"selected", "values">> THEN EmptyList ELSE EmptyString]

FieldKeys(fields) == {fields[i].key : i \in 1..Len(fields)}

\* The schema the claim gives a question of the listed types.
SchemaAsClaimed(q) ==
  /\ q.type = "free_text" => q.answer_schema = TextSchema
  /\ q.type = "single_select" => q.answer_schema = SingleSchema
  /\ q.type = "multi_select" => q.answer_schema = MultiSchema
  /\ q.type = "compound" =>
       /\ DOMAIN q.answer_schema = FieldKeys(q.fields)
       /\ \A i \in 1..Len(q.fields) :
            q.answer_schema[q.fields[i].key] =
              IF q.fields[i].type \in {"multi_select", "ranked_select"}
                THEN EmptyList ELSE EmptyString

\* C9 as stated: in both parsers free_text, single_select and multi_select
\* get their fixed schema and a compound question gets exactly its field
\* keys, each mapped to the empty sequence (multi_select, ranked_select) or
\* the empty string (any other field type).
C9_SchemaAsClaimed ==
  /\ ConvertOver => \A j \in 1..Len(conv.generated) : SchemaAsClaimed(conv.generated[j])
  /\ pc = "md_done" => \A qid \in DOMAIN pm.questions : SchemaAsClaimed(pm.questions[qid])

\* The last field of the list that carries key k.
LastField(fields, k) ==
  fields[CHOOSE i \in 1..Len(fields) :
           /\ fields[i].key = k
           /\ \A j \in 1..Len(fields) : fields[j].key = k => j <= i]

\* The schema the parsers give: as claimed, except that a key's value is
\* that of the last field carrying it, that the markdown parser maps a
\* number field to 0, and that a compound question without fields gets {}
\* from the phase-2 parser and {text: ""} from the markdown parser.
SchemaAsAmended(q, markdown) ==
  /\ q.type = "free_text" => q.answer_schema = TextSchema
  /\ q.type = "single_select" => q.answer_schema = SingleSchema
  /\ q.type = "multi_select" => q.answer_schema = MultiSchema
  /\ (q.type = "compound" /\ q.fields = <<>>) =>
       q.answer_schema = IF markdown THEN TextSchema ELSE EmptyDict
  /\ (q.type = "compound" /\ q.fields # <<>>) =>
       /\ DOMAIN q.answer_schema = FieldKeys(q.fields)
       /\ \A k \in FieldKeys(q.fields) :
            q.answer_schema[k] =
              LET t == LastField(q.fields, k).type
              IN IF t \in {"multi_select", "ranked_select"} THEN EmptyList
                 ELSE IF markdown /\ t = "number" THEN Zero
                 ELSE EmptyString

\* C9 amended: the answer_schema is the function of type and fields
\* described by SchemaAsAmended, in both parsers.
C9_SchemaAsAmended ==
  /\ ConvertOver =>
       \A j \in 1..Len(conv.generated) : SchemaAsAmended(conv.generated[j], FALSE)
  /\ pc = "md_done" =>
       \A qid \in DOMAIN pm.questions : SchemaAsAmended(pm.questions[qid], TRUE)

\* C9 witness: the markdown parser has produced a compound question whose
\* two fields share a key, a multi_select first and a number last.
C9_Witness ==
  /\ pc = "md_done"
  /\ \E qid \in DOMAIN pm.questions :
       LET q == pm.questions[qid]
       IN /\ q.type = "compound"
          /\ Len(q.fields) = 2
          /\ q.fields[1].type = "multi_select"
          /\ q.fields[2].type = "number"
          /\ q.fields[1].key = q.fields[2].key
          /\ q.answer_schema[q.fields[2].key] = Zero

\* C6: the fields parse_fields returns for one compound question have
\* pairwise distinct keys.
C6_FieldKeysUnique ==
  pc = "pf_done" =>
    \A i, j \in 1..Len(pf.fields) : pf.fields[i].key = pf.fields[j].key => i = j

\* The label holds "notes" as a whitespace-delimited word, in any case.
LabelHasNotesWord(label) == \E i \in 1..Len(label) : Lower(label[i]) = "notes"

\* Every field of q whose label holds the word notes has key notes and type
\* free_text.
NotesFieldsKeyedAndTyped(q) ==
  \A i \in 1..Len(q.fields) :
    LabelHasNotesWord(q.fields[i].label) =>
      /\ q.fields[i].key = <<"notes">>
      /\ q.fields[i].type = "free_text"

\* A compound question with a field whose label holds the word notes has an
\* answer_schema that maps notes to the empty string.
NotesSchemaEmptyString(q) ==
  (/\ q.type = "compound"
   /\ \E i \in 1..Len(q.fields) : LabelHasNotesWord(q.fields[i].label)) =>
    /\ <<"notes">> \in DOMAIN q.answer_schema
    /\ q.answer_schema[<<"notes">>] = EmptyString

\* C20: every field of a question generated by the phase-2 parser whose
\* label contains the word notes has key notes and type free_text, whatever
\* its type token, and the answer_schema of a compound question with such a
\* field maps notes to the empty string.
C20_NotesFieldIsFreeText ==
  ConvertOver =>
    \A j \in 1..Len(conv.generated) :
      /\ NotesFieldsKeyedAndTyped(conv.generated[j])
      /\ NotesSchemaEmptyString(conv.generated[j])

\* The first half of C20 alone: key and type of the notes fields.
NotesFieldsAlwaysKeyedAndTyped ==
  ConvertOver =>
    \A j \in 1..Len(conv.generated) : NotesFieldsKeyedAndTyped(conv.generated[j])

\* A line that starts with "Implementation notes" or contains
\* "answer_schema".
IsTerminator(line) == line.kind \in {"impl_notes", "schema_note"}

\* The block up to and including its first terminator line (the whole block
\* when it has none).
RECURSIVE UpToTerminator(_)
UpToTerminator(block) ==
  IF block = <<>> THEN <<>>
  ELSE IF IsTerminator(Head(block)) THEN <<Head(block)>>
  ELSE <<Head(block)>> \o UpToTerminator(Tail(block))

\* The lines after the terminator contribute nothing: the block gives the
\* question that its part up to the terminator gives.
LaterLinesContributeNothing(block, section_id) ==
  LET read == UpToTerminator(block)
  IN ~BlockRaises(read) =>
       /\ ~BlockRaises(block)
       /\ process_question_block(block, section_id)
            = process_question_block(read, section_id)

\* C21: in every question block of the phase-2 parser, the lines that follow
\* a line starting with "Implementation notes" or containing "answer_schema"
\* contribute no prompt, option, field or field option to the question.
C21_TerminatorEndsBlock ==
  ConvertOver =>
    \A i \in 1..Len(conv.blocks) :
      LaterLinesContributeNothing(conv.blocks[i][1], conv.blocks[i][2])

\* The part of C21 about "Implementation notes" lines alone.
ImplNotesEndsBlock ==
  ConvertOver =>
    \A i \in 1..Len(conv.blocks) :
      (\A k \in 1..Len(conv.blocks[i][1]) : conv.blocks[i][1][k].kind # "schema_note")
        => LaterLinesContributeNothing(conv.blocks[i][1], conv.blocks[i][2])

\* The question records of the blocks that do not raise, in block order.
RECURSIVE RecordsOf(_)
RecordsOf(blocks) ==
  IF blocks = <<>> THEN <<>>
  ELSE (IF BlockRaises(Head(blocks)[1]) THEN <<>>
        ELSE process_question_block(Head(blocks)[1], Head(blocks)[2]))
       \o RecordsOf(Tail(blocks))

\* A block made of its header alone, whatever the type token of the header.
HeaderOnly(block) == Len(block) = 1

\* C22: a block whose processing raises never aborts the parse of the
\* phase-2 document: the records generated are those of all the blocks that
\* do not raise, each raising block is reported once, and a header with an
\* absent or unrecognized type token gives a free_text question instead of
\* raising.
C22_BadBlockNeverAborts ==
  ConvertOver =>
    /\ conv.generated = RecordsOf(conv.blocks)
    /\ Len(conv.generated) + Len(conv.errors) = Len(conv.blocks)
    /\ \A i \in 1..Len(conv.blocks) :
         LET block == conv.blocks[i][1]
         IN /\ HeaderOnly(block) => i \notin Range(conv.errors)
            /\ (~BlockRaises(block) /\ ~Contains(block[1].tok, "compound")
                /\ ~Contains(block[1].tok, "single_select")
                /\ ~Contains(block[1].tok, "multi_select")
                /\ ~Contains(block[1].tok, "ranked_select")) =>
                 process_question_block(block, conv.blocks[i][2])[1].type = "free_text"

\* C22 witness: the first block of a document raised and the block after
\* it gave its question record.
C22_Witness ==
  /\ ConvertOver
  /\ Len(conv.blocks) = 2
  /\ conv.errors = <<1>>
  /\ Len(conv.generated) = 1
  /\ conv.generated[1].id = conv.blocks[2][1][1].qid

-----------------------------------------------------------------------------
\* src/scripts/validate_schema.py: SchemaValidator.
\* A questions document is a record: has is the set of top-level keys it
\* carries, sections a sequence of [id, question_ids], questions a function
\* from question id to question, manifests a function from manifest name to
\* [question_ids].  A question is [has, section_id, order, type, options,
\* fields], has being the set of keys it carries; an option or a field is
\* [has].  A finding is a sequence of strings: the check, then its subject.

None == "None"

VALID_TYPES == {"free_text", "single_select", "multi_select", "ranked_select", "compound"}

REQUIRED_QUESTION_FIELDS ==
  {"id", "section_id", "order", "title", "prompt", "type", "answer_schema",
   "examples", "tags"}

ALL_CHECKS ==
  {"structure", "types", "references", "manifests", "options", "fields",
   "duplicates", "orphans", "best_practices", "syntax"}

\* q.get(key): the value under key, None when the question lacks the key.
Get(q, key) == IF key \in q.has THEN q[key] ELSE None

\* q.get(key, []) for a list-valued key.
GetList(q, key) == IF key \in q.has THEN q[key] ELSE <<>>

\* data.get('questions', {}).items(): the question ids in document order.
Items(questions) ==
  SelectSeq(<<"q01", "q02", "q03">>, LAMBDA qid : qid \in DOMAIN questions)

\* The findings cands[i][2] whose condition cands[i][1] holds, in order.
Collect(cands) ==
  LET sel == SelectSeq(cands, LAMBDA c : c[1])
  IN [i \in 1..Len(sel) |-> sel[i][2]]

\* [f(x) for x in seq], concatenated.
FlatMap(seq, f(_)) == Flatten([i \in 1..Len(seq) |-> f(seq[i])])

check_structure(data) ==
  Collect(<< <<"sections" \notin data.has, <<"structure", "sections">> >>,
             <<"questions" \notin data.has, <<"structure", "questions">> >>,
             <<"manifests" \notin data.has, <<"structure", "manifests">> >> >>)
  \o Collect([i \in 1..Len(Items(data.questions)) |->
       LET qid == Items(data.questions)[i]
       IN <<REQUIRED_QUESTION_FIELDS \ data.questions[qid].has # {},
            <<"structure", qid>> >>])

check_types(data) ==
  Collect([i \in 1..Len(Items(data.questions)) |->
    LET qid == Items(data.questions)[i]
        qtype == Get(data.questions[qid], "type")
    IN <<qtype # None /\ qtype \notin VALID_TYPES, <<"types", qid>> >>])

check_references(data) ==
  LET section_ids == {data.sections[i].id : i \in 1..Len(data.sections)}
  IN Collect([i \in 1..Len(Items(data.questions)) |->
       LET qid == Items(data.questions)[i]
           section_id == Get(data.questions[qid], "section_id")
       IN <<section_id # None /\ section_id \notin section_ids,
            <<"references", qid>> >>])

\* data.get('manifests', {}).items(): lite before full.
ManifestNames(manifests) ==
  SelectSeq(<<"lite", "full">>, LAMBDA m : m \in DOMAIN manifests)

\* _check_manifests reporting a missing id once per manifest, however often
\* the manifest lists it.
check_manifests_OncePerId(data) ==
  LET OfManifest(m) ==
        LET ids == data.manifests[m].question_ids
        IN Collect([i \in 1..Len(ids) |->
             <<ids[i] \notin DOMAIN data.questions
                 /\ \A j \in 1..(i - 1) : ids[j] # ids[i],
               <<"manifests", m, ids[i]>> >>])
  IN FlatMap(ManifestNames(data.manifests), OfManifest)

check_manifests(data) ==
  LET OfManifest(m) ==
        LET ids == data.manifests[m].question_ids
        IN Collect([i \in 1..Len(ids) |->
             <<ids[i] \notin DOMAIN data.questions, <<"manifests", m, ids[i]>> >>])
  IN FlatMap(ManifestNames(data.manifests), OfManifest)

check_options(data) ==
  LET OfQuestion(qid) ==
        LET q == data.questions[qid]
            options == GetList(q, "options")
        IN IF Get(q, "type") \in {"single_select", "multi_select"}
             THEN Collect(<< <<options = <<>>, <<"options", qid>> >> >>)
                  \o FlatMap(options, LAMBDA opt :
                       Collect(<< <<"value" \notin opt.has, <<"options", qid, "value">> >>,
                                  <<"label" \notin opt.has, <<"options", qid, "label">> >> >>))
             ELSE <<>>
  IN FlatMap(Items(data.questions), OfQuestion)

check_best_practices(data) ==
  Collect([i \in 1..Len(Items(data.questions)) |->
    LET qid == Items(data.questions)[i]
        q == data.questions[qid]
    IN <<Get(q, "type") = "multi_select" /\ "max" \notin q.has,
         <<"best_practices", qid>> >>])

check_fields(data) ==
  LET OfQuestion(qid) ==
        LET q == data.questions[qid]
            fields == GetList(q, "fields")
        IN IF Get(q, "type") = "compound"
             THEN Collect(<< <<fields = <<>>, <<"fields", qid>> >> >>)
                  \o FlatMap(fields, LAMBDA field :
                       Collect(<< <<"key" \notin field.has, <<"fields", qid, "key">> >>,
                                  <<"type" \notin field.has, <<"fields", qid, "type">> >>,
                                  <<"label" \notin field.has, <<"fields", qid, "label">> >> >>))
             ELSE <<>>
  IN FlatMap(Items(data.questions), OfQuestion)

\* The loop over one section's question_ids: orders maps an order number to
\* the last question seen with it.  Every question of a document carries
\* an order, so .get('order') is the order.
RECURSIVE DuplicateOrders(_, _, _, _)
DuplicateOrders(ids, orders, section, questions) ==
  IF ids = <<>> THEN <<>>
  ELSE LET qid == Head(ids)
       IN IF qid \in DOMAIN questions
            THEN LET order == questions[qid].order
                 IN (IF order \in DOMAIN orders
                       THEN << <<"duplicates", section.id, orders[order], qid>> >>
                       ELSE <<>>)
                    \o DuplicateOrders(Tail(ids), Put(orders, order, qid), section, questions)
            ELSE DuplicateOrders(Tail(ids), orders, section, questions)

\* The keys of a dict are distinct, so the first test never fires.
check_duplicates(data) ==
  FlatMap(data.sections, LAMBDA section :
    DuplicateOrders(section.question_ids, EmptyDict, section, data.questions))

\* sorted(orphans): the ids of the set in ascending order.
Sorted(ids) == SelectSeq(<<"q01", "q02", "q03">>, LAMBDA qid : qid \in ids)

check_orphans(data) ==
  LET questions_in_sections ==
        UNION {Range(data.sections[i].question_ids) : i \in 1..Len(data.sections)}
      orphans == DOMAIN data.questions \ questions_in_sections
  IN Collect(<< <<orphans # {}, <<"orphans">> \o Sorted(orphans)>> >>)

\* The findings of the error-level checks that are enabled.
SchemaErrors(data, enabled_checks) ==
  (IF "structure" \in enabled_checks THEN check_structure(data) ELSE <<>>)
  \o (IF "types" \in enabled_checks THEN check_types(data) ELSE <<>>)
  \o (IF "references" \in enabled_checks THEN check_references(data) ELSE <<>>)
  \o (IF "manifests" \in enabled_checks THEN check_manifests(data) ELSE <<>>)
  \o (IF "options" \in enabled_checks THEN check_options(data) ELSE <<>>)
  \o (IF "fields" \in enabled_checks THEN check_fields(data) ELSE <<>>)
  \o (IF "duplicates" \in enabled_checks THEN check_duplicates(data) ELSE <<>>)

\* The findings of the warning-level checks that are enabled.
SchemaWarnings(data, enabled_checks) ==
  (IF "orphans" \in enabled_checks THEN check_orphans(data) ELSE <<>>)
  \o (IF "best_practices" \in enabled_checks THEN check_best_practices(data) ELSE <<>>)

\* validate_phase, "Determine status".
SchemaStatus(errors, warnings) ==
  IF errors # <<>> THEN "FAIL"
  ELSE IF warnings # <<>> THEN "WARN"
  ELSE "PASS"

\* validate_phase keeping the findings of the warning-level checks as
\* warnings whatever strict says.
validate_phase_NeverEscalates(file, data, enabled_checks, strict) ==
  IF file = "missing"
    THEN [status |-> "ERROR", errors |-> <<>>, warnings |-> <<>>]
  ELSE IF file = "malformed"
    THEN [status |-> "ERROR", errors |-> << <<"syntax">> >>, warnings |-> <<>>]
  ELSE [status |-> SchemaStatus(SchemaErrors(data, enabled_checks),
                                SchemaWarnings(data, enabled_checks)),
        errors |-> SchemaErrors(data, enabled_checks),
        warnings |-> SchemaWarnings(data, enabled_checks)]

\* validate_phase(phase_dir) of a validator built with enabled_checks and
\* strict; file is "missing", "malformed" or "ok".
validate_phase(file, data, enabled_checks, strict) ==
  IF file = "missing"
    THEN [status |-> "ERROR", errors |-> <<>>, warnings |-> <<>>]
  ELSE IF file = "malformed"
    THEN [status |-> "ERROR", errors |-> << <<"syntax">> >>, warnings |-> <<>>]
  ELSE LET warnings_found == SchemaWarnings(data, enabled_checks)
           errors == SchemaErrors(data, enabled_checks)
                       \o (IF strict THEN warnings_found ELSE <<>>)
           warnings == IF strict THEN <<>> ELSE warnings_found
       IN [status |-> SchemaStatus(errors, warnings),
           errors |-> errors, warnings |-> warnings]

\* SchemaValidator(enabled_checks, strict).validate_phase(phase_dir)
ValidatePhase ==
  /\ pc = "val_schema"
  /\ val' = [val EXCEPT
       !.result = validate_phase(val.file, val.data, val.enabled_checks, val.strict)]
  /\ pc' = "val_done"
  /\ UNCHANGED <<conv, agg, pm, pf, phase_dir>>

-----------------------------------------------------------------------------
\* src/scripts/validate_manifest.py: ManifestValidator.
\* A manifest.json is a function from the paths the validator looks at to
\* "ok" (present, of the expected JSON type), "missing" or "wrong" (present,
\* of another type: a string where an object or a list is expected, a
\* number where a string is).

REQUIRED_FIELDS ==
  <<"schema_version", "display", "artifact", "intro", "prompts_artifact",
    "privacy_preface">>

REQUIRED_DISPLAY_FIELDS ==
  <<"id", "title", "short_title", "description", "icon", "menu_icon", "order">>

REQUIRED_ARTIFACT_FIELDS ==
  <<"id", "title", "subtitle", "language", "stage", "purpose">>

STAGE_FIELDS == <<"code", "label", "eligibility">>

INTRO_FIELDS == <<"instructions", "keep_in_mind">>

PROMPTS_ARTIFACT_FIELDS == <<"id", "title", "language", "applies_to">>

Under(parent, names) == {parent \o <<names[i]>> : i \in 1..Len(names)}

ManifestPaths ==
  Under(<<>>, REQUIRED_FIELDS)
  \cup Under(<<"display">>, REQUIRED_DISPLAY_FIELDS)
  \cup Under(<<"artifact">>, REQUIRED_ARTIFACT_FIELDS)
  \cup Under(<<"artifact", "stage">>, STAGE_FIELDS)
  \cup Under(<<"intro">>, INTRO_FIELDS)
  \cup Under(<<"intro", "instructions">>, <<"title", "items">>)
  \cup Under(<<"intro", "keep_in_mind">>, <<"title", "items">>)
  \cup Under(<<"prompts_artifact">>, PROMPTS_ARTIFACT_FIELDS)
  \cup Under(<<"privacy_preface">>, <<"title", "text">>)

\* field in data[parent], the parent being present: a string holds no key.
In(data, parent, field) ==
  data[parent] = "ok" /\ data[parent \o <<field>>] # "missing"

\* for field, expected_type in required: missing, or of another type.
MissingOrWrong(data, parent, required) ==
  FlatMap(required, LAMBDA field :
    Collect(<< <<~In(data, parent, field), <<"Missing", parent \o <<field>> >> >>,
               <<In(data, parent, field) /\ data[parent \o <<field>>] = "wrong",
                 <<"should be", parent \o <<field>> >> >> >>))

TopLevelErrors(data) ==
  FlatMap(REQUIRED_FIELDS, LAMBDA field :
    Collect(<< <<data[<<field>>] = "missing", <<"Missing", <<field>> >> >>,
               <<data[<<field>>] = "wrong", <<"should be", <<field>> >> >> >>))

DisplayErrors(data) ==
  IF data[<<"display">>] = "missing" THEN <<>>
  ELSE MissingOrWrong(data, <<"display">>, REQUIRED_DISPLAY_FIELDS)

StageErrors(data) ==
  LET stage == <<"artifact", "stage">>
  IN IF ~In(data, <<"artifact">>, "stage") THEN <<>>
     ELSE Collect(<<
       <<~In(data, stage, "code"), <<"Missing", stage \o <<"code">> >> >>,
       <<~In(data, stage, "label"), <<"Missing", stage \o <<"label">> >> >>,
       <<~In(data, stage, "eligibility"), <<"Missing", stage \o <<"eligibility">> >> >>,
       <<In(data, stage, "eligibility") /\ data[stage \o <<"eligibility">>] = "wrong",
         <<"should be", stage \o <<"eligibility">> >> >> >>)

ArtifactErrors(data) ==
  IF data[<<"artifact">>] = "missing" THEN <<>>
  ELSE MissingOrWrong(data, <<"artifact">>, REQUIRED_ARTIFACT_FIELDS)
       \o StageErrors(data)

\* The block for intro.instructions and the one for intro.keep_in_mind.
IntroPartErrors(data, part) ==
  LET path == <<"intro", part>>
  IN IF ~In(data, <<"intro">>, part) THEN << <<"Missing", path>> >>
     ELSE IF data[path] = "wrong" THEN << <<"should be", path>> >>
     ELSE Collect(<<
       <<~In(data, path, "items"), <<"Missing", path \o <<"items">> >> >>,
       <<In(data, path, "items") /\ data[path \o <<"items">>] = "wrong",
         <<"should be", path \o <<"items">> >> >> >>)

IntroPartWarnings(data, part) ==
  LET path == <<"intro", part>>
  IN Collect(<< <<In(data, <<"intro">>, part) /\ data[path] = "ok"
                    /\ ~In(data, path, "title"),
                  <<"Missing", path \o <<"title">> >> >> >>)

IntroErrors(data) ==
  IF data[<<"intro">>] = "missing" THEN <<>>
  ELSE IntroPartErrors(data, "instructions") \o IntroPartErrors(data, "keep_in_mind")

IntroWarnings(data) ==
  IF data[<<"intro">>] = "missing" THEN <<>>
  ELSE IntroPartWarnings(data, "instructions") \o IntroPartWarnings(data, "keep_in_mind")

PromptsArtifactErrors(data) ==
  LET pa == <<"prompts_artifact">>
  IN IF data[pa] = "missing" THEN <<>>
     ELSE FlatMap(PROMPTS_ARTIFACT_FIELDS, LAMBDA field :
            Collect(<< <<~In(data, pa, field), <<"Missing", pa \o <<field>> >> >> >>))

PrivacyPrefaceErrors(data) ==
  LET pp == <<"privacy_preface">>
  IN IF data[pp] = "missing" THEN <<>>
     ELSE Collect(<< <<~In(data, pp, "text"), <<"Missing", pp \o <<"text">> >> >> >>)

PrivacyPrefaceWarnings(data) ==
  LET pp == <<"privacy_preface">>
  IN IF data[pp] = "missing" THEN <<>>
     ELSE Collect(<< <<~In(data, pp, "title"), <<"Missing", pp \o <<"title">> >> >> >>)

ManifestErrors(data) ==
  TopLevelErrors(data) \o DisplayErrors(data) \o ArtifactErrors(data)
  \o IntroErrors(data) \o PromptsArtifactErrors(data) \o PrivacyPrefaceErrors(data)

ManifestWarnings(data) == IntroWarnings(data) \o PrivacyPrefaceWarnings(data)

\* "Determine status" without the strict branch.
ManifestStatus_IgnoresStrict(errors, warnings, strict) ==
  IF errors # <<>> THEN "FAIL"
  ELSE IF warnings # <<>> THEN "WARN"
  ELSE "PASS"

\* validate_manifest, "Determine status".
ManifestStatus(errors, warnings, strict) ==
  IF errors # <<>> THEN "FAIL"
  ELSE IF warnings # <<>> /\ strict THEN "FAIL"
  ELSE IF warnings # <<>> THEN "WARN"
  ELSE "PASS"

\* validate_manifest(manifest_path) of a validator built with strict.
validate_manifest(file, data, strict) ==
  IF file = "missing"
    THEN [status |-> "ERROR", errors |-> << <<"not found">> >>, warnings |-> <<>>]
  ELSE IF file = "malformed"
    THEN [status |-> "ERROR", errors |-> << <<"syntax">> >>, warnings |-> <<>>]
  ELSE [status |-> ManifestStatus(ManifestErrors(data), ManifestWarnings(data), strict),
        errors |-> ManifestErrors(data),
        warnings |-> ManifestWarnings(data)]

\* ManifestValidator(strict).validate_manifest(manifest_path)
ValidateManifest ==
  /\ pc = "val_manifest"
  /\ val' = [val EXCEPT !.result = validate_manifest(val.file, val.data, val.strict)]
  /\ pc' = "val_done"
  /\ UNCHANGED <<conv, agg, pm, pf, phase_dir>>

-----------------------------------------------------------------------------
\* src/data/phase_2/scripts/validate_questions.py: validate_file, over one
\* question file of data/phase_2/questions: name is the file name without
\* .json, data the question it holds.

PHASE2_REQUIRED_FIELDS ==
  <<"id", "section_id", "order", "title", "prompt", "type", "answer_schema", "tags">>

\* answer_schema is an object in every question file, so check 5 is silent.
validate_file(file, name, data) ==
  IF file # "ok" THEN << <<"json">> >>
  ELSE LET qtype == Get(data, "type")
           fields == GetList(data, "fields")
           schema == IF "answer_schema" \in data.has THEN data.answer_schema ELSE {}
       IN Collect(<< <<Get(data, "id") # name, <<"id">> >> >>)
          \o FlatMap(PHASE2_REQUIRED_FIELDS, LAMBDA field :
               Collect(<< <<field \notin data.has, <<"required", field>> >> >>))
          \o (IF qtype \in {"single_select", "multi_select", "ranked_select"}
                THEN Collect(<< <<"options" \notin data.has, <<"options", "missing">> >>,
                                <<"options" \in data.has /\ data.options = <<>>,
                                  <<"options", "empty">> >> >>)
                ELSE <<>>)
          \o (IF qtype = "compound"
                THEN Collect(<< <<fields = <<>>, <<"fields">> >> >>)
                     \o FlatMap(fields, LAMBDA field :
                          Collect(<< <<Get(field, "key") \notin schema,
                                       <<"schema_key", Get(field, "key")>> >> >>))
                ELSE <<>>)

\* validate_file(filepath) for one file of the questions directory.
ValidateFile ==
  /\ pc = "val_file"
  /\ val' = [val EXCEPT
       !.result.errors = validate_file(val.file, val.name, val.data),
       !.result.status = "done"]
  /\ pc' = "val_done"
  /\ UNCHANGED <<conv, agg, pm, pf, phase_dir>>

-----------------------------------------------------------------------------
\* src/scripts/audit_questions_schema.py: audit_file, over a questions
\* document.  Every finding of validate_question_schema begins with the
\* question it names.

validate_integrity(data) ==
  IF "questions" \notin data.has THEN << <<"integrity", "questions">> >>
  ELSE (IF "sections" \in data.has
          THEN FlatMap(data.sections, LAMBDA section :
                 Collect([i \in 1..Len(section.question_ids) |->
                   <<section.question_ids[i] \notin DOMAIN data.questions,
                     <<"sections", section.id, section.question_ids[i]>> >>]))
          ELSE <<>>)
       \o (IF "manifests" \in data.has
             THEN FlatMap(ManifestNames(data.manifests), LAMBDA mid :
                    Collect([i \in 1..Len(data.manifests[mid].question_ids) |->
                      <<data.manifests[mid].question_ids[i] \notin DOMAIN data.questions,
                        <<"manifests", mid, data.manifests[mid].question_ids[i]>> >>]))
             ELSE <<>>)

validate_question_schema(qid, q) ==
  LET schema == IF "answer_schema" \in q.has THEN q.answer_schema ELSE {}
      field_keys == {q.fields[i].key :
                       i \in {i \in 1..Len(q.fields) : "key" \in q.fields[i].has}}
  IN FlatMap(<<"id", "type", "title", "prompt", "answer_schema">>, LAMBDA field :
       Collect(<< <<field \notin q.has, <<qid, "required", field>> >> >>))
     \o (IF "type" \notin q.has THEN <<>>
         ELSE IF q.type = "single_select"
           THEN Collect(<< <<"options" \notin q.has, <<qid, "options">> >>,
                           <<"selected_value" \notin schema, <<qid, "answer_schema">> >> >>)
         ELSE IF q.type = "multi_select"
           THEN Collect(<< <<"options" \notin q.has, <<qid, "options">> >>,
                           <<"selected_values" \notin schema, <<qid, "answer_schema">> >> >>)
         ELSE IF q.type = "compound"
           THEN Collect(<< <<"fields" \notin q.has, <<qid, "fields">> >>,
                           <<"fields" \in q.has /\ field_keys \ schema # {},
                             <<qid, "answer_schema", "fields">> >> >>)
         ELSE IF q.type = "free_text"
           THEN Collect(<< <<"text" \notin schema, <<qid, "answer_schema">> >> >>)
         ELSE <<>>)

\* No document carries primary_manifest_id.
audit_file(file, data) ==
  IF file # "ok" THEN << <<"load">> >>
  ELSE FlatMap(<<"sections", "questions", "manifests", "primary_manifest_id">>,
         LAMBDA key : Collect(<< <<key \notin data.has, <<"top", key>> >> >>))
       \o validate_integrity(data)
       \o (IF "questions" \in data.has
             THEN FlatMap(Items(data.questions), LAMBDA qid :
                    validate_question_schema(qid, data.questions[qid]))
             ELSE <<>>)

\* audit_file(file_path) for one questions.json.
AuditFile ==
  /\ pc = "val_audit"
  /\ val' = [val EXCEPT
       !.result.errors = audit_file(val.file, val.data),
       !.result.status = "done"]
  /\ pc' = "val_done"
  /\ UNCHANGED <<conv, agg, pm, pf, phase_dir>>

NextVal == ValidatePhase \/ ValidateManifest \/ ValidateFile \/ AuditFile

-----------------------------------------------------------------------------
\* Validator runs: bounded questions documents and manifest files.

\* A question carrying every required key; its answer_schema is the set
\* of the schema's keys.
VQ(section_id, order, type) ==
  [has |-> REQUIRED_QUESTION_FIELDS, id |-> "q01", section_id |-> section_id,
   order |-> order, type |-> type, options |-> <<>>, fields |-> <<>>,
   answer_schema |-> {"text"}]

VOption(has) == [has |-> has]

\* A field of a compound question: the keys it carries and its key.
VField(has, key) == [has |-> has, key |-> key]

VQuestions ==
  { VQ("s1", 1, "free_text"),
    [VQ("s1", 1, "free_text") EXCEPT !.has = @ \ {"examples"}],
    [VQ("s1", 1, "free_text") EXCEPT !.has = @ \ {"type", "section_id"}],
    VQ("s1", 1, "scale"),
    VQ("s9", 2, "free_text"),
    VQ("s1", 2, "single_select"),
    [VQ("s1", 2, "single_select") EXCEPT
       !.has = @ \cup {"options"},
       !.options = <<VOption({"value", "label"}), VOption({"label"})>>],
    [VQ("s1", 2, "multi_select") EXCEPT
       !.has = @ \cup {"options"}, !.options = <<VOption({"value", "label"})>>],
    [VQ("s1", 2, "multi_select") EXCEPT
       !.has = @ \cup {"options", "max"}, !.options = <<VOption({"value", "label"})>>],
    VQ("s1", 2, "ranked_select"),
    [VQ("s1", 2, "ranked_select") EXCEPT
       !.has = @ \cup {"options"},
       !.options = <<VOption({"value", "label"}), VOption({"value"})>>],
    VQ("s1", 2, "compound"),
    [VQ("s1", 2, "compound") EXCEPT
       !.has = @ \cup {"fields"},
       !.fields = <<VField({"key", "type", "label"}, "mood"),
                    VField({"key", "label"}, "energy")>>,
       !.answer_schema = {"mood", "energy"}],
    [VQ("s1", 2, "compound") EXCEPT
       !.has = @ \cup {"fields"},
       !.fields = <<VField({"key", "type", "label"}, "mood"),
                    VField({"key", "type", "label"}, "energy")>>,
       !.answer_schema = {"mood"}],
    [VQ("s1", 2, "compound") EXCEPT
       !.has = @ \cup {"fields"},
       !.fields = <<VField({"key", "type", "label"}, "mood")>>,
       !.answer_schema = {"mood", "notes"}] }

\* The second question of a document: a good one, or a multi_select
\* without max.
VSecondQuestions ==
  { VQ("s1", 1, "free_text"),
    [VQ("s1", 2, "multi_select") EXCEPT
       !.has = @ \cup {"options"}, !.options = <<VOption({"value", "label"})>>] }

\* The questions maps: q01 and q02, each present or not.
VQuestionMaps ==
  {EmptyDict}
  \cup {Put(EmptyDict, "q01", q) : q \in VQuestions}
  \cup {Put(EmptyDict, "q02", q) : q \in VSecondQuestions}
  \cup {Put(Put(EmptyDict, "q01", q), "q02", r) : q \in VQuestions, r \in VSecondQuestions}

VSections ==
  {<<>>}
  \cup {<<[id |-> "s1", question_ids |-> ids]>> :
          ids \in SeqsUpTo({"q01", "q02", "q99"}, MaxRefs)}
  \cup {<<[id |-> "s1", question_ids |-> ids], [id |-> "s2", question_ids |-> <<"q02">>]>> :
          ids \in {<<"q01">>, <<"q01", "q02">>}}

VManifests ==
  {EmptyDict}
  \cup {[m \in {"lite", "full"} |->
          [question_ids |-> IF m = "lite" THEN l ELSE f]] :
            l \in SeqsUpTo({"q01", "q99"}, MaxRefs),
            f \in SeqsUpTo({"q99"}, MaxManifestRefs)}

\* The documents: a top-level key that is absent has no content.
VDocs ==
  {[has |-> {"sections", "questions", "manifests"},
    sections |-> s, questions |-> q, manifests |-> m] :
      s \in VSections, q \in VQuestionMaps, m \in VManifests \ {EmptyDict}}
  \cup {[has |-> {"sections", "questions"},
         sections |-> s, questions |-> q, manifests |-> EmptyDict] :
           s \in VSections, q \in VQuestionMaps}
  \cup {[has |-> {"manifests"}, sections |-> <<>>, questions |-> EmptyDict,
         manifests |-> m] : m \in VManifests \ {EmptyDict}}

VCheckSets == {ALL_CHECKS, {"structure", "manifests", "best_practices"}}

NoDoc ==
  [has |-> {}, sections |-> <<>>, questions |-> EmptyDict, manifests |-> EmptyDict]

NoResult == [status |-> "", errors |-> <<>>, warnings |-> <<>>]

InitSchema ==
  /\ pc = "val_schema"
  /\ \E file \in {"ok", "missing", "malformed"}, strict \in BOOLEAN,
        enabled_checks \in VCheckSets :
       \E data \in IF file = "ok" THEN VDocs ELSE {NoDoc} :
         val = [tool |-> "schema", file |-> file, data |-> data, strict |-> strict,
                enabled_checks |-> enabled_checks, result |-> NoResult]
  /\ conv = Idle /\ agg = Idle /\ pm = Idle /\ pf = Idle /\ phase_dir = Idle

\* The subsets of S with at most n elements.
RECURSIVE SubsetsUpTo(_, _)
SubsetsUpTo(S, n) ==
  IF n = 0 THEN {{}}
  ELSE LET smaller == SubsetsUpTo(S, n - 1)
       IN smaller \cup {D \cup {x} : D \in smaller, x \in S}

\* The manifests that deviate from a complete one at up to MaxDeviations
\* paths.
VManifestFiles ==
  {[p \in ManifestPaths |-> IF p \in DOMAIN dev THEN dev[p] ELSE "ok"] :
     dev \in UNION {[D -> {"missing", "wrong"}] :
                      D \in SubsetsUpTo(ManifestPaths, MaxDeviations)}}

InitManifest ==
  /\ pc = "val_manifest"
  /\ \E file \in {"ok", "missing", "malformed"}, strict \in BOOLEAN :
       \E data \in IF file = "ok" THEN VManifestFiles
                   ELSE {[p \in ManifestPaths |-> "ok"]} :
         val = [tool |-> "manifest", file |-> file, data |-> data, strict |-> strict,
                enabled_checks |-> {}, result |-> NoResult]
  /\ conv = Idle /\ agg = Idle /\ pm = Idle /\ pf = Idle /\ phase_dir = Idle

\* The question files of data/phase_2/questions: q01.json or q02.json
\* holding a question whose id is q01.
InitFile ==
  /\ pc = "val_file"
  /\ \E file \in {"ok", "malformed"}, name \in {"q01", "q02"} :
       \E data \in IF file = "ok" THEN VQuestions ELSE {VQ("s1", 1, "free_text")} :
         val = [tool |-> "file", file |-> file, name |-> name, data |-> data,
                result |-> NoResult]
  /\ conv = Idle /\ agg = Idle /\ pm = Idle /\ pf = Idle /\ phase_dir = Idle

InitAudit ==
  /\ pc = "val_audit"
  /\ \E file \in {"ok", "malformed"} :
       \E data \in IF file = "ok" THEN VDocs ELSE {NoDoc} :
         val = [tool |-> "audit", file |-> file, data |-> data, result |-> NoResult]
  /\ conv = Idle /\ agg = Idle /\ pm = Idle /\ pf = Idle /\ phase_dir = Idle

SpecVal == (InitSchema \/ InitManifest \/ InitFile \/ InitAudit) /\ [][NextVal]_vars

-----------------------------------------------------------------------------
\* Properties of the validators.

SchemaRunOver == pc = "val_done" /\ val.tool = "schema" /\ val.file = "ok"

ManifestRunOver == pc = "val_done" /\ val.tool = "manifest" /\ val.file = "ok"

\* C1: when validate_phase, all checks enabled, returns PASS for a document
\* that loads, every id in every section's and every manifest's
\* question_ids is a key of the questions map and every question carries
\* all required fields.
C1_PassMeansResolved ==
  (SchemaRunOver /\ val.enabled_checks = ALL_CHECKS /\ val.result.status = "PASS") =>
    /\ \A i \in 1..Len(val.data.sections) :
         Range(val.data.sections[i].question_ids) \subseteq DOMAIN val.data.questions
    /\ \A m \in DOMAIN val.data.manifests :
         Range(val.data.manifests[m].question_ids) \subseteq DOMAIN val.data.questions
    /\ \A qid \in DOMAIN val.data.questions :
         REQUIRED_QUESTION_FIELDS \subseteq val.data.questions[qid].has

\* PASS, WARN and FAIL as the severity model defines them from whether
\* there is an error finding, whether there is a warning finding, and the
\* strict flag.
SeverityModel(status, any_error, any_warning, strict) ==
  /\ status = "PASS" <=> (~any_error /\ ~any_warning)
  /\ status = "WARN" <=> (~any_error /\ any_warning /\ ~strict)
  /\ status = "FAIL" <=> (any_error \/ (strict /\ any_warning))

\* C10: for a document that loads, validate_phase and validate_manifest
\* return PASS iff there is no error and no warning, WARN iff there is no
\* error and at least one warning in non-strict mode, FAIL iff there is at
\* least one error or, in strict mode, at least one warning.
C10_StatusFollowsSeverityModel ==
  /\ SchemaRunOver =>
       /\ SeverityModel(val.result.status,
                        SchemaErrors(val.data, val.enabled_checks) # <<>>,
                        SchemaWarnings(val.data, val.enabled_checks) # <<>>,
                        val.strict)
       /\ SeverityModel(val.result.status, val.result.errors # <<>>,
                        val.result.warnings # <<>>, val.strict)
  /\ ManifestRunOver =>
       SeverityModel(val.result.status, val.result.errors # <<>>,
                     val.result.warnings # <<>>, val.strict)

\* C10 witness: a strict run of validate_manifest over a manifest with a
\* warning and no error has returned FAIL.
C10_Witness ==
  /\ ManifestRunOver
  /\ val.strict
  /\ val.result.errors = <<>>
  /\ val.result.warnings # <<>>
  /\ val.result.status = "FAIL"

\* The ids a document of the validator runs can mention.
VIds == {"q01", "q02", "q99"}

\* C11: for every manifest and every id that is not a question, the errors
\* of validate_phase name that manifest and that id exactly once per
\* occurrence of the id in the manifest's question_ids; an id that is a
\* question is named by no manifest error.
C11_OneErrorPerMissingManifestId ==
  (SchemaRunOver /\ "manifests" \in val.enabled_checks) =>
    \A m \in {"lite", "full"}, qid \in VIds :
      Count(val.result.errors, <<"manifests", m, qid>>) =
        IF m \in DOMAIN val.data.manifests /\ qid \notin DOMAIN val.data.questions
          THEN Count(val.data.manifests[m].question_ids, qid)
          ELSE 0

\* C11 witness: the lite manifest lists the missing id q99 twice and the
\* existing id q01 never, and two errors name lite and q99.
C11_Witness ==
  /\ SchemaRunOver
  /\ "manifests" \in val.enabled_checks
  /\ "q01" \in DOMAIN val.data.questions
  /\ "lite" \in DOMAIN val.data.manifests
  /\ val.data.manifests["lite"].question_ids = <<"q99", "q99">>
  /\ Count(val.result.errors, <<"manifests", "lite", "q99">>) = 2

-----------------------------------------------------------------------------
\* src/scripts/validate_schema.py: main().
\* A run of the command line: val.args holds --check ("none", "valid" for
\* --check structure,manifests,orphans, or "invalid" for a list with an
\* unknown name), --phase ("none", "first" for the name of the first phase
\* directory, "absent" for a name no directory has) and --strict; val.fs
\* holds whether the data directory exists and the phase directories in
\* sorted order, each with its questions.json (file and data).

\* The exit status counting FAIL only.
ExitCode_FailOnly(results) ==
  IF \E i \in 1..Len(results) : results[i].status = "FAIL" THEN 1 ELSE 0

\* The exit status main computes from the results.
ExitCode(results) ==
  IF \E i \in 1..Len(results) : results[i].status \in {"FAIL", "ERROR"} THEN 1 ELSE 0

\* enabled_checks as main hands it to the validator.
MainChecks(args) ==
  IF args.check = "none" THEN ALL_CHECKS ELSE {"structure", "manifests", "orphans"}

\* The indices, in val.fs.dirs, of the phase directories main validates.
MainPhases(args, fs) ==
  IF args.phase = "none" THEN [i \in 1..Len(fs.dirs) |-> i] ELSE <<1>>

\* main() up to the validation loop: it exits with status 1 on an invalid
\* --check, a missing data directory or an unknown --phase.
MainStart ==
  /\ pc = "main_start"
  /\ IF \/ val.args.check = "invalid"
        \/ ~val.fs.data_dir
        \/ val.args.phase = "absent"
        \/ (val.args.phase = "first" /\ val.fs.dirs = <<>>)
       THEN /\ val' = [val EXCEPT !.exit_code = 1]
            /\ pc' = "main_done"
       ELSE /\ val' = [val EXCEPT !.phases = MainPhases(val.args, val.fs),
                                  !.validating = TRUE]
            /\ pc' = "main_loop"
  /\ UNCHANGED <<conv, agg, pm, pf, phase_dir>>

\* The loop giving up on the batch at a file that does not load: every
\* remaining document gets the record of the first one that failed to load.
main_validate_StopAtUnloadable(v) ==
  LET k == Len(v.results) + 1
      dir == v.fs.dirs[v.phases[k]]
      result == validate_phase(dir.file, dir.data, MainChecks(v.args), v.args.strict)
  IN IF k > 1 /\ v.results[k - 1].status = "ERROR"
       THEN [v EXCEPT !.results = Append(@, [v.results[k - 1] EXCEPT !.phase = v.phases[k]])]
       ELSE [v EXCEPT !.results =
               Append(@, [phase |-> v.phases[k], status |-> result.status,
                          errors |-> result.errors, warnings |-> result.warnings])]

\* One iteration of  for phase_dir in phases.
main_validate(v) ==
  LET dir == v.fs.dirs[v.phases[Len(v.results) + 1]]
      result == validate_phase(dir.file, dir.data, MainChecks(v.args), v.args.strict)
  IN [v EXCEPT !.results =
        Append(@, [phase |-> v.phases[Len(v.results) + 1],
                   status |-> result.status,
                   errors |-> result.errors,
                   warnings |-> result.warnings])]

MainValidate ==
  /\ pc = "main_loop"
  /\ Len(val.results) < Len(val.phases)
  /\ val' = main_validate(val)
  /\ UNCHANGED <<pc, conv, agg, pm, pf, phase_dir>>

\* The report is printed or saved, then sys.exit.
MainExit ==
  /\ pc = "main_loop"
  /\ Len(val.results) = Len(val.phases)
  /\ val' = [val EXCEPT !.exit_code = ExitCode(val.results)]
  /\ pc' = "main_done"
  /\ UNCHANGED <<conv, agg, pm, pf, phase_dir>>

NextMain == MainStart \/ MainValidate \/ MainExit

\* The questions.json files of a batch: one that is missing, one that is
\* not JSON, and three that load: a clean one, one with an orphan
\* question and one whose manifest lists a missing id.
CleanDoc ==
  [has |-> {"sections", "questions", "manifests"},
   sections |-> <<[id |-> "s1", question_ids |-> <<"q01">>]>>,
   questions |-> Put(EmptyDict, "q01", VQ("s1", 1, "free_text")),
   manifests |-> [m \in {"lite", "full"} |-> [question_ids |-> <<"q01">>]]]

BatchFiles ==
  { [file |-> "missing", data |-> NoDoc],
    [file |-> "malformed", data |-> NoDoc],
    [file |-> "ok", data |-> CleanDoc],
    [file |-> "ok", data |-> [CleanDoc EXCEPT !.sections[1].question_ids = <<>>]],
    [file |-> "ok", data |-> [CleanDoc EXCEPT !.manifests["full"].question_ids = <<"q99">>]] }

InitMain ==
  /\ pc = "main_start"
  /\ \E check \in {"none", "valid", "invalid"}, phase \in {"none", "first", "absent"},
        strict \in BOOLEAN, data_dir \in BOOLEAN,
        dirs \in SeqsUpTo(BatchFiles, MaxPhases) :
       val = [tool |-> "main",
              args |-> [check |-> check, phase |-> phase, strict |-> strict],
              fs |-> [data_dir |-> data_dir, dirs |-> dirs],
              phases |-> <<>>, results |-> <<>>, validating |-> FALSE,
              exit_code |-> 0]
  /\ conv = Idle /\ agg = Idle /\ pm = Idle /\ pf = Idle /\ phase_dir = Idle

SpecMain == InitMain /\ [][NextMain]_vars

\* main has validated its batch and exited.
BatchOver == pc = "main_done" /\ val.validating

\* C12: when main has validated a batch, its exit status is non-zero if and
\* only if some document's status is FAIL or ERROR; a batch of PASS and
\* WARN documents exits with status 0.
C12_ExitStatusReflectsFailures ==
  BatchOver =>
    /\ val.exit_code # 0 <=>
         \E i \in 1..Len(val.results) : val.results[i].status \in {"FAIL", "ERROR"}
    /\ (\A i \in 1..Len(val.results) : val.results[i].status \in {"PASS", "WARN"})
         => val.exit_code = 0

\* C12 witness: a batch of two documents, one PASS and one WARN, has exited
\* with status 0.
C12_Witness ==
  /\ BatchOver
  /\ Len(val.results) = 2
  /\ val.results[1].status = "PASS"
  /\ val.results[2].status = "WARN"
  /\ val.exit_code = 0

SelectTypes == {"single_select", "multi_select", "ranked_select"}

\* The errors report a select question q named qid as the claim requires:
\* one finding when its options are missing or empty, and one finding per
\* option that lacks value and per option that lacks label.
OptionsReported(errors, qid, q, missing, value, label) ==
  LET options == GetList(q, "options")
  IN ("type" \in q.has /\ q.type \in SelectTypes) =>
       /\ options = <<>> => Count(errors, missing) >= 1
       /\ Count(errors, value) >=
            Cardinality({i \in 1..Len(options) : "value" \notin options[i].has})
       /\ Count(errors, label) >=
            Cardinality({i \in 1..Len(options) : "label" \notin options[i].has})

FileRunOver == pc = "val_done" /\ val.tool = "file" /\ val.file = "ok"

AuditRunOver == pc = "val_done" /\ val.tool = "audit" /\ val.file = "ok"

\* C14: the validators report an error for every single_select,
\* multi_select or ranked_select question whose options are missing or
\* empty and for every option of such a question that lacks value or
\* lacks label: validate_phase with the options check enabled, and
\* validate_file over a question file.
C14_SelectOptionsReported ==
  /\ (SchemaRunOver /\ "options" \in val.enabled_checks) =>
       \A qid \in DOMAIN val.data.questions :
         OptionsReported(val.result.errors, qid, val.data.questions[qid],
                         <<"options", qid>>, <<"options", qid, "value">>,
                         <<"options", qid, "label">>)
  /\ FileRunOver =>
       /\ ("type" \in val.data.has /\ val.data.type \in SelectTypes
             /\ GetList(val.data, "options") = <<>>) =>
            \E i \in 1..Len(val.result.errors) : val.result.errors[i][1] = "options"
       /\ OptionsReported(val.result.errors, val.name, val.data,
                          <<"options", "empty">>, <<"options", "value">>,
                          <<"options", "label">>)

\* Question q has a field whose key is not a key of its answer_schema.
FieldKeyNotInSchema(q) ==
  /\ "type" \in q.has /\ q.type = "compound"
  /\ \E i \in 1..Len(GetList(q, "fields")) :
       /\ "key" \in q.fields[i].has
       /\ q.fields[i].key \notin q.answer_schema

\* C15: for every compound question with a field whose key is not a key
\* of its answer_schema the validator reports an error naming the question,
\* and a schema key without a field produces no error: validate_phase with
\* the fields check enabled.
C15_FieldKeyMissingFromSchemaReported ==
  (SchemaRunOver /\ "fields" \in val.enabled_checks) =>
    \A qid \in DOMAIN val.data.questions :
      /\ FieldKeyNotInSchema(val.data.questions[qid]) =>
           \E i \in 1..Len(val.result.errors) :
             /\ val.result.errors[i][1] = "fields"
             /\ val.result.errors[i][2] = qid
      /\ val.data.questions[qid].answer_schema = {"mood", "notes"} =>
           \A i \in 1..Len(val.result.errors) :
             ~(val.result.errors[i][1] = "fields" /\ val.result.errors[i][2] = qid)

\* The same property of audit_file and of validate_file, which compare the
\* field keys with the schema.
FieldKeyCheckedByAudits ==
  /\ AuditRunOver =>
       \A qid \in DOMAIN val.data.questions :
         /\ FieldKeyNotInSchema(val.data.questions[qid]) =>
              Count(val.result.errors, <<qid, "answer_schema", "fields">>) = 1
         /\ val.data.questions[qid].answer_schema = {"mood", "notes"} =>
              Count(val.result.errors, <<qid, "answer_schema", "fields">>) = 0
  /\ FileRunOver =>
       /\ FieldKeyNotInSchema(val.data) =>
            \E i \in 1..Len(val.result.errors) : val.result.errors[i][1] = "schema_key"
       /\ val.data.answer_schema = {"mood", "notes"} =>
            \A i \in 1..Len(val.result.errors) : val.result.errors[i][1] # "schema_key"

\* Two distinct questions listed in the section have equal order values.
TwoShareOrder(section, questions) ==
  \E a, b \in Range(section.question_ids) \cap DOMAIN questions :
    a # b /\ questions[a].order = questions[b].order

\* C16: the duplicates check reports an error for a section if and only if
\* two distinct questions listed in that section's question_ids have equal
\* order values; equal orders in different sections produce no error.
C16_DuplicateOrderIffTwoShare ==
  (SchemaRunOver /\ "duplicates" \in val.enabled_checks) =>
    \A k \in 1..Len(val.data.sections) :
      (\E i \in 1..Len(val.result.errors) :
         /\ val.result.errors[i][1] = "duplicates"
         /\ val.result.errors[i][2] = val.data.sections[k].id)
      <=> TwoShareOrder(val.data.sections[k], val.data.questions)

\* The questions of the document that no section lists.
Orphans(data) ==
  DOMAIN data.questions \
    UNION {Range(data.sections[i].question_ids) : i \in 1..Len(data.sections)}

OrphanMessages(findings) ==
  {i \in 1..Len(findings) : findings[i][1] = "orphans"}

\* C17: with the orphans check enabled, a document with orphan questions
\* gets one message listing them, among the warnings in non-strict mode
\* (status WARN when nothing else is found) and among the errors, with
\* status FAIL, in strict mode; a document without orphans gets no orphan
\* message.
C17_OrphansWarnOrFail ==
  (SchemaRunOver /\ "orphans" \in val.enabled_checks) =>
    LET orphans == Orphans(val.data)
        message == <<"orphans">> \o Sorted(orphans)
        r == val.result
    IN /\ orphans = {} =>
            OrphanMessages(r.errors) = {} /\ OrphanMessages(r.warnings) = {}
       /\ (orphans # {} /\ ~val.strict) =>
            /\ Count(r.warnings, message) = 1
            /\ Cardinality(OrphanMessages(r.warnings)) = 1
            /\ OrphanMessages(r.errors) = {}
            /\ (Len(r.warnings) = 1 /\ r.errors = <<>>) => r.status = "WARN"
       /\ (orphans # {} /\ val.strict) =>
            /\ Count(r.errors, message) = 1
            /\ Cardinality(OrphanMessages(r.errors)) = 1
            /\ OrphanMessages(r.warnings) = {}
            /\ r.status = "FAIL"

\* C17 witness: a non-strict run over a document whose only finding is the
\* orphan q01 has returned WARN.
C17_Witness ==
  /\ SchemaRunOver
  /\ val.enabled_checks = ALL_CHECKS
  /\ ~val.strict
  /\ Orphans(val.data) = {"q01"}
  /\ val.result.errors = <<>>
  /\ val.result.warnings = << <<"orphans", "q01">> >>
  /\ val.result.status = "WARN"

AggregateOver == pc = "agg_done"

\* The ids of the questions the phase-2 parser produced.
GeneratedIds == {conv.generated[j].id : j \in 1..Len(conv.generated)}

\* C18: every question of the phase-2 parser is tagged [lite, full] when
\* its id is in LITE_IDS and [full] otherwise; after aggregation the full
\* manifest holds every parsed question, the lite manifest exactly the
\* allow-listed ones, and lite's ids are among full's.
C18_TagsFollowLiteList ==
  /\ ConvertOver =>
       \A j \in 1..Len(conv.generated) :
         conv.generated[j].tags =
           IF conv.generated[j].id \in LITE_IDS THEN <<"lite", "full">> ELSE <<"full">>
  /\ AggregateOver =>
       /\ Range(agg.manifests["full"].question_ids) = GeneratedIds
       /\ Range(agg.manifests["lite"].question_ids) = GeneratedIds \cap LITE_IDS
       /\ Range(agg.manifests["lite"].question_ids)
            \subseteq Range(agg.manifests["full"].question_ids)

\* C18 witness: q01, of the allow-list, and q04, not of it, have been
\* parsed and aggregated.
C18_Witness ==
  /\ AggregateOver
  /\ GeneratedIds = {"q01", "q04"}
  /\ agg.manifests["lite"].question_ids = <<"q01">>
  /\ agg.manifests["full"].question_ids = <<"q01", "q04">>

\* C19: in each derived manifest the question ids are in non-decreasing
\* order of the questions' order values, whatever the sections and the
\* order in which the question files were read.
C19_ManifestsSortedByOrder ==
  AggregateOver =>
    \A m \in {"lite", "full"} :
      LET ids == agg.manifests[m].question_ids
      IN \A i, j \in 1..Len(ids) :
           i < j => agg.questions_map[ids[i]].order <= agg.questions_map[ids[j]].order

\* C19 witness: q04.json was read before q1.json, and the full manifest
\* lists q1, of order 1, before q04, of order 4.
C19_Witness ==
  /\ AggregateOver
  /\ agg.keys = <<"q04", "q1">>
  /\ agg.manifests["full"].question_ids = <<"q1", "q04">>

-----------------------------------------------------------------------------
\* src/scripts/validate_prompts.py: PromptsValidator.
\* A prompts document is [file, has_prompts, is_dict, prompts]: prompts is a
\* function from prompt name to prompt.  A prompt is [is_dict, fields,
\* inputs, output_format, constraints, context, text]: fields gives, for
\* each required field, "ok" (present, of the expected type), "missing" or
\* "wrong"; inputs and output_format are sequences of items [is_dict, f],
\* f giving the same three states for the required keys of the item;
\* constraints and context are sequences of "str" or "other"; text gives,
\* for title, description and role, the placeholder patterns it contains.

REQUIRED_PROMPTS ==
  <<"individual_reflection_lite", "individual_reflection_full",
    "couple_reflection_lite", "couple_reflection_full">>

REQUIRED_PROMPT_FIELDS ==
  <<"id", "title", "description", "role", "inputs", "context", "output_format",
    "constraints">>

REQUIRED_INPUT_FIELDS == <<"key", "label", "placeholder">>

REQUIRED_OUTPUT_FORMAT_FIELDS == <<"section", "requirements">>

placeholder_patterns == <<"REPLACE:", "REPLACE_", "TODO:", "FIXME:">>

\* prompts.items(): the prompt names in document order.
PromptItems(prompts) ==
  SelectSeq(REQUIRED_PROMPTS \o <<"extra">>, LAMBDA n : n \in DOMAIN prompts)

\* "Check required fields" for the keys `required` of the object f.
RequiredFieldErrors(where, f, required) ==
  FlatMap(required, LAMBDA field :
    Collect(<< <<f[field] = "missing", where \o <<"missing", field>> >>,
               <<f[field] = "wrong", where \o <<"expected", field>> >> >>))

\* "Validate inputs array" / "Validate output_format array".
ItemErrors(name, p, key, required) ==
  IF p.fields[key] # "ok" THEN <<>>
  ELSE FlatMap([i \in 1..Len(p[key]) |-> i], LAMBDA idx :
         IF ~p[key][idx].is_dict
           THEN << <<name, key, NumStr(idx - 1), "must be an object">> >>
           ELSE RequiredFieldErrors(<<name, key, NumStr(idx - 1)>>,
                                    p[key][idx].f, required))

\* "Validate constraints array" / "Validate context array": the errors.
StringListErrors(name, p, key) ==
  IF p.fields[key] # "ok" THEN <<>>
  ELSE Collect([idx \in 1..Len(p[key]) |->
         <<p[key][idx] # "str", <<name, key, NumStr(idx - 1), "must be a string">> >>])

\* The warning of an empty constraints or context array.
EmptyListWarnings(name, p, key) ==
  Collect(<< <<p.fields[key] = "ok" /\ p[key] = <<>>, <<name, key, "empty array">> >> >>)

\* "Check for placeholder text that should be replaced".
PlaceholderWarnings(name, p) ==
  FlatMap(<<"title", "description", "role">>, LAMBDA field :
    IF p.fields[field] # "ok" THEN <<>>
    ELSE Collect([i \in 1..Len(placeholder_patterns) |->
           <<placeholder_patterns[i] \in p.text[field],
             <<name, field, "placeholder", placeholder_patterns[i]>> >>]))

\* The errors of one iteration of `for prompt_name, prompt_data in prompts.items()`.
PromptErrors(name, p) ==
  IF ~p.is_dict THEN << <<name, "must be an object">> >>
  ELSE RequiredFieldErrors(<<name>>, p.fields, REQUIRED_PROMPT_FIELDS)
       \o ItemErrors(name, p, "inputs", REQUIRED_INPUT_FIELDS)
       \o ItemErrors(name, p, "output_format", REQUIRED_OUTPUT_FORMAT_FIELDS)
       \o StringListErrors(name, p, "constraints")
       \o StringListErrors(name, p, "context")

\* The warnings of one iteration of the same loop.
PromptWarnings(name, p) ==
  IF ~p.is_dict THEN <<>>
  ELSE EmptyListWarnings(name, p, "constraints")
       \o EmptyListWarnings(name, p, "context")
       \o PlaceholderWarnings(name, p)

\* result['status']: FAIL is set with every error, and by the strict branch.
PromptsStatus(errors, warnings, strict) ==
  IF errors # <<>> THEN "FAIL"
  ELSE IF strict /\ warnings # <<>> THEN "FAIL"
  ELSE "PASS"

\* validate_prompts(prompts_path) of a validator built with strict.
validate_prompts(data, strict) ==
  IF data.file = "missing"
    THEN [status |-> "FAIL", errors |-> << <<"File does not exist">> >>, warnings |-> <<>>]
  ELSE IF data.file = "malformed"
    THEN [status |-> "FAIL", errors |-> << <<"Invalid JSON">> >>, warnings |-> <<>>]
  ELSE IF ~data.has_prompts
    THEN [status |-> "FAIL", errors |-> << <<"Missing root prompts">> >>, warnings |-> <<>>]
  ELSE IF ~data.is_dict
    THEN [status |-> "FAIL", errors |-> << <<"prompts must be an object">> >>,
          warnings |-> <<>>]
  ELSE LET names == PromptItems(data.prompts)
           errors ==
             Collect([i \in 1..Len(REQUIRED_PROMPTS) |->
               <<REQUIRED_PROMPTS[i] \notin DOMAIN data.prompts,
                 <<"Missing required prompt", REQUIRED_PROMPTS[i]>> >>])
             \o FlatMap(names, LAMBDA n : PromptErrors(n, data.prompts[n]))
           warnings == FlatMap(names, LAMBDA n : PromptWarnings(n, data.prompts[n]))
       IN [status |-> PromptsStatus(errors, warnings, strict),
           errors |-> errors, warnings |-> warnings]

\* format_text: the line of one result and the count of the summary that
\* the result goes to.
format_text(r) ==
  [line |-> <<IF r.status \in {"PASS", "WARN", "FAIL"} THEN r.status ELSE "????",
              r.status>>,
   counted |-> IF r.errors # <<>> THEN "failed"
               ELSE IF r.warnings # <<>> THEN "warnings"
               ELSE "passed"]

\* PromptsValidator(strict).validate_prompts(prompts_path), then format_text.
ValidatePrompts ==
  /\ pc = "val_prompts"
  /\ LET r == validate_prompts(val.data, val.strict)
     IN val' = [val EXCEPT !.result = r, !.report = format_text(r)]
  /\ pc' = "val_prompts_done"
  /\ UNCHANGED <<conv, agg, pm, pf, phase_dir>>

NextPrompts == ValidatePrompts

\* A prompt with every required field, one input, one output section, one
\* constraint and one context line, and no placeholder text.
GoodPrompt ==
  [is_dict |-> TRUE,
   fields |-> [f \in Range(REQUIRED_PROMPT_FIELDS) |-> "ok"],
   inputs |-> <<[is_dict |-> TRUE, f |-> [k \in Range(REQUIRED_INPUT_FIELDS) |-> "ok"]]>>,
   output_format |->
     <<[is_dict |-> TRUE, f |-> [k \in Range(REQUIRED_OUTPUT_FORMAT_FIELDS) |-> "ok"]]>>,
   constraints |-> <<"str">>,
   context |-> <<"str">>,
   text |-> [f \in {"title", "description", "role"} |-> {}]]

VPrompts ==
  {GoodPrompt,
   [GoodPrompt EXCEPT !.constraints = <<>>],
   [GoodPrompt EXCEPT !.context = <<>>, !.constraints = <<"other">>],
   [GoodPrompt EXCEPT !.text["title"] = {"TODO:"}],
   [GoodPrompt EXCEPT !.text["role"] = {"REPLACE:", "REPLACE_"}, !.fields["id"] = "missing"],
   [GoodPrompt EXCEPT !.fields["inputs"] = "wrong", !.inputs = <<>>],
   [GoodPrompt EXCEPT !.inputs[1].f["label"] = "missing"],
   [GoodPrompt EXCEPT !.output_format[1].is_dict = FALSE],
   [GoodPrompt EXCEPT !.is_dict = FALSE]}

\* The documents: the four required prompts, each good or one of VPrompts,
\* at most MaxDeviations of them not good, one of them possibly absent and
\* an extra prompt possibly present.
VPromptDocs ==
  {[file |-> "ok", has_prompts |-> TRUE, is_dict |-> TRUE, prompts |-> ps] :
     ps \in UNION {[D -> VPrompts] :
                     D \in {(Range(REQUIRED_PROMPTS) \cup X) \ Y :
                              X \in {{}, {"extra"}},
                              Y \in {{}} \cup {{n} : n \in Range(REQUIRED_PROMPTS)}}}}

InitPrompts ==
  /\ pc = "val_prompts"
  /\ \E strict \in BOOLEAN :
       \E data \in {d \in VPromptDocs :
                      Cardinality({n \in DOMAIN d.prompts : d.prompts[n] # GoodPrompt})
                        <= MaxDeviations}
                   \cup {[file |-> f, has_prompts |-> h, is_dict |-> d, prompts |-> EmptyDict] :
                           f \in {"ok", "missing", "malformed"}, h \in BOOLEAN, d \in BOOLEAN} :
         val = [tool |-> "prompts", data |-> data, strict |-> strict,
                result |-> NoResult, report |-> [line |-> <<>>, counted |-> ""]]
  /\ conv = Idle /\ agg = Idle /\ pm = Idle /\ pf = Idle /\ phase_dir = Idle

SpecPrompts == InitPrompts /\ [][NextPrompts]_vars

PromptsRunOver == pc = "val_prompts_done"

\* C27: validate_prompts reports WARN for a document with no errors and at
\* least one warning in non-strict mode, and reports PASS only when both the
\* errors and the warnings lists are empty.
C27_PromptsThreeLevels ==
  PromptsRunOver =>
    /\ (val.result.errors = <<>> /\ val.result.warnings # <<>> /\ ~val.strict)
         => val.result.status = "WARN"
    /\ val.result.status = "PASS"
         => (val.result.errors = <<>> /\ val.result.warnings = <<>>)

\* The part of the severity model that validate_prompts keeps: FAIL exactly
\* when there is an error or, in strict mode, a warning.
PromptsFailIffErrorOrStrictWarning ==
  PromptsRunOver =>
    (val.result.status = "FAIL"
       <=> (val.result.errors # <<>> \/ (val.strict /\ val.result.warnings # <<>>)))

-----------------------------------------------------------------------------
\* src/scripts/question_tool.py: QuestionTool, and the command-line tools
\* that share data/<phase>/questions.json with it.
\* phase_dir is the phase directory: questions_json the document stored in
\* questions.json, bak the content of questions.json.bak (<<>> while there
\* is none, else <<document>>), questions the files of the questions/
\* directory (file stem -> question), command, result and exit_code the
\* command run last with the head of what it printed and its exit status,
\* before the two files as they were when that command started, and ops
\* the number of commands run.  questions_dir tells whether the questions/
\* directory exists, just_exported whether the command run last was an
\* export of questions_manager.
\* A document is [sections, questions, manifests]: sections a sequence of
\* [id, title, question_ids], questions a function from id to question,
\* manifests a function from name to [question_ids].  A question is a
\* record whose `has` is the set of keys its JSON object carries; tags is
\* tags.included_in_manifests, options a sequence of options, max the value
\* of key max, max_selected that of validation.max_selected (0: falsy).

TOOL_VALID_TYPES ==
  <<"free_text", "single_select", "multi_select", "ranked_select", "compound">>

VALID_MANIFESTS == <<"lite", "full">>

\* f"q{next_num:02d}"
QId(n) ==
  CASE n = 1 -> "q01" [] n = 2 -> "q02" [] n = 3 -> "q03" [] n = 4 -> "q04"
    [] n = 5 -> "q05" [] n = 6 -> "q06" [] n = 7 -> "q07" [] n = 8 -> "q08"
    [] OTHER -> "q09"

\* qid.startswith('q') and qid[1:].isdigit()
IsNumbered(qid) == qid \in {QId(n) : n \in 1..9}

\* int(qid[1:])
QNumber(qid) == CHOOSE n \in 1..9 : QId(n) = qid

\* max(numbers, default=0)
MaxOf(numbers) ==
  IF numbers = {} THEN 0 ELSE CHOOSE n \in numbers : \A m \in numbers : m <= n

\* _get_next_question_id(data)
get_next_question_id(data) ==
  QId(MaxOf({QNumber(qid) : qid \in {k \in DOMAIN data.questions : IsNumbered(k)}}) + 1)

\* The first section of the id, as the loops `for section in data['sections']`
\* with their break find it; 0 when there is none.
FindSection(sections, section_id) ==
  IF \E i \in 1..Len(sections) : sections[i].id = section_id
    THEN CHOOSE i \in 1..Len(sections) :
           /\ sections[i].id = section_id
           /\ \A j \in 1..(i - 1) : sections[j].id # section_id
    ELSE 0

\* _get_next_order(data, section_id)
get_next_order(data, section_id) ==
  LET i == FindSection(data.sections, section_id)
      section_questions == IF i = 0 THEN <<>> ELSE data.sections[i].question_ids
  IN IF section_questions = <<>> THEN 1
     ELSE MaxOf({data.questions[qid].order :
                   qid \in Range(section_questions) \cap DOMAIN data.questions}) + 1

TOOL_REQUIRED ==
  <<"id", "section_id", "order", "title", "prompt", "type", "answer_schema",
    "examples", "tags">>

\* _validate_question(question)
validate_question(question) ==
  Collect([i \in 1..Len(TOOL_REQUIRED) |->
    <<TOOL_REQUIRED[i] \notin question.has, <<"Missing required field", TOOL_REQUIRED[i]>> >>])
  \o Collect(<<
       <<"type" \in question.has /\ question.type \notin Range(TOOL_VALID_TYPES),
         <<"Invalid type">> >>,
       <<"type" \in question.has /\ question.type \in {"single_select", "multi_select"}
           /\ ("options" \notin question.has \/ question.options = <<>>),
         <<"Select-type questions must have options array">> >> >>)
  \o (IF "tags" \in question.has
        THEN Collect([i \in 1..Len(question.tags) |->
               <<question.tags[i] \notin Range(VALID_MANIFESTS),
                 <<"Invalid manifest", question.tags[i]>> >>])
        ELSE <<>>)

\* list.append(x) guarded by `x not in list`
AppendIfAbsent(ids, x) == IF x \in Range(ids) THEN ids ELSE Append(ids, x)

\* list.remove(x) guarded by `x in list`: the first occurrence goes.
RECURSIVE RemoveFirst(_, _)
RemoveFirst(ids, x) ==
  IF ids = <<>> THEN <<>>
  ELSE IF Head(ids) = x THEN Tail(ids)
  ELSE <<Head(ids)>> \o RemoveFirst(Tail(ids), x)

\* "Update manifests": the id joins every named manifest the document has.
RECURSIVE JoinManifests(_, _, _)
JoinManifests(manifests, names, question_id) ==
  IF names = <<>> THEN manifests
  ELSE LET m == Head(names)
           joined == IF m \in DOMAIN manifests
                       THEN [manifests EXCEPT ![m].question_ids =
                                                AppendIfAbsent(@, question_id)]
                       ELSE manifests
       IN JoinManifests(joined, Tail(names), question_id)

\* What a command returns: the head of its message, the document it leaves
\* in memory, and whether it reached _save_questions.
Returned(result, data, saved) == [result |-> result, data |-> data, saved |-> saved]

\* The question object built by add_question before its type branch.
NewQuestion(question_id, args, order) ==
  [has |-> {"id", "section_id", "order", "title", "prompt", "type", "examples", "tags"},
   id |-> question_id, section_id |-> args.section, order |-> order,
   title |-> "T", type |-> args.type, options |-> <<>>, tags |-> args.manifest,
   max |-> 0, max_selected |-> 0]

\* "Add to questions object", "Update section", "Update manifests", "Save"
\* of add_question and import_question.
StoreQuestion(data, question) ==
  LET question_id == question.id
      added == [data EXCEPT !.questions = Put(data.questions, question_id, question)]
      i == FindSection(data.sections, question.section_id)
  IN IF i = 0 THEN Returned("ERROR", added, FALSE)
     ELSE Returned("SUCCESS",
            [added EXCEPT
               !.sections[i].question_ids = AppendIfAbsent(@, question_id),
               !.manifests = JoinManifests(data.manifests, question.tags, question_id)],
            TRUE)

\* add_question(args): args.options is "none" (no --options), "ok" (every
\* item value:label) or "bad" (an item without a colon); args.order 0 is no
\* --order; args.manifest is the list the --manifest text splits into.
add_question(data, args) ==
  LET question_id == get_next_question_id(data)
      order == IF args.order # 0 THEN args.order ELSE get_next_order(data, args.section)
      question == NewQuestion(question_id, args, order)
      with_schema == [question EXCEPT !.has = @ \cup {"answer_schema"}]
  IN IF args.type \in {"single_select", "multi_select"}
       THEN IF args.options # "ok" THEN Returned("ERROR", data, FALSE)
            ELSE LET q == [with_schema EXCEPT !.has = @ \cup {"options"},
                                              !.options = <<"option">>]
                 IN IF validate_question(q) # <<>>
                      THEN Returned("VALIDATION ERRORS", data, FALSE)
                      ELSE StoreQuestion(data, q)
     ELSE IF args.type = "compound" THEN Returned("NOTE", data, FALSE)
     ELSE LET q == IF args.type = "free_text" THEN with_schema ELSE question
          IN IF validate_question(q) # <<>>
               THEN Returned("VALIDATION ERRORS", data, FALSE)
               ELSE StoreQuestion(data, q)

\* update_question(args): a value "x" of field order is not an integer, and
\* int() raises.
update_question(data, args) ==
  IF args.question \notin DOMAIN data.questions THEN Returned("ERROR", data, FALSE)
  ELSE LET q == data.questions[args.question]
           has == q.has \cup {args.field}
           question ==
             CASE args.field = "title" -> [q EXCEPT !.title = args.value, !.has = has]
               [] args.field = "type" -> [q EXCEPT !.type = args.value, !.has = has]
               [] args.field = "section_id" ->
                    [q EXCEPT !.section_id = args.value, !.has = has]
               [] args.field = "order" /\ args.value # "x" ->
                    [q EXCEPT !.order = QNumber(args.value), !.has = has]
               [] OTHER -> q
       IN IF args.field \notin {"title", "type", "section_id", "order"}
            THEN Returned("ERROR", data, FALSE)
          ELSE IF args.field = "order" /\ args.value = "x"
            THEN Returned("ERROR", data, FALSE)
          ELSE IF validate_question(question) # <<>>
            THEN Returned("VALIDATION ERRORS", data, FALSE)
          ELSE Returned("SUCCESS",
                 [data EXCEPT !.questions[args.question] = question], TRUE)

\* A delete_question that leaves the manifests as they are.
delete_question_KeepManifests(data, args) ==
  IF ~args.confirm THEN Returned("ERROR", data, FALSE)
  ELSE IF args.question \notin DOMAIN data.questions THEN Returned("ERROR", data, FALSE)
  ELSE Returned("SUCCESS",
         [sections |-> [i \in 1..Len(data.sections) |->
                          [data.sections[i] EXCEPT
                             !.question_ids = RemoveFirst(@, args.question)]],
          questions |-> [k \in DOMAIN data.questions \ {args.question} |->
                           data.questions[k]],
          manifests |-> data.manifests],
         TRUE)

\* delete_question(args)
delete_question(data, args) ==
  IF ~args.confirm THEN Returned("ERROR", data, FALSE)
  ELSE IF args.question \notin DOMAIN data.questions THEN Returned("ERROR", data, FALSE)
  ELSE Returned("SUCCESS",
         [sections |-> [i \in 1..Len(data.sections) |->
                          [data.sections[i] EXCEPT
                             !.question_ids = RemoveFirst(@, args.question)]],
          questions |-> [k \in DOMAIN data.questions \ {args.question} |->
                           data.questions[k]],
          manifests |-> [m \in DOMAIN data.manifests |->
                           [data.manifests[m] EXCEPT
                              !.question_ids = RemoveFirst(@, args.question)]]],
         TRUE)

\* import_question(args): args.file is "missing", "malformed" or the
\* question the JSON file holds; args.section "" and args.manifest <<>> are
\* the options left out.  A key read from a question that lacks it raises,
\* and main prints the exception as an ERROR.
import_question(data, args) ==
  IF args.file.state # "ok" THEN Returned("ERROR", data, FALSE)
  ELSE
    LET q0 == args.file.question
        q1 == IF "id" \notin q0.has \/ args.auto_id
                THEN [q0 EXCEPT !.id = get_next_question_id(data),
                                !.has = @ \cup {"id"}]
                ELSE q0
        q2 == IF args.section # ""
                THEN [q1 EXCEPT !.section_id = args.section, !.has = @ \cup {"section_id"}]
                ELSE q1
        tagsRaise == args.manifest # <<>> /\ "tags" \notin q2.has
        q3 == IF args.manifest # <<>> THEN [q2 EXCEPT !.tags = args.manifest] ELSE q2
        orderRaise == "order" \notin q3.has /\ "section_id" \notin q3.has
        question == IF "order" \notin q3.has /\ ~orderRaise
                      THEN [q3 EXCEPT !.order = get_next_order(data, q3.section_id),
                                      !.has = @ \cup {"order"}]
                      ELSE q3
    IN IF tagsRaise \/ orderRaise THEN Returned("ERROR", data, FALSE)
       ELSE IF validate_question(question) # <<>>
         THEN Returned("VALIDATION ERRORS", data, FALSE)
       ELSE IF question.id \in DOMAIN data.questions /\ ~args.overwrite
         THEN Returned("ERROR", data, FALSE)
       ELSE StoreQuestion(data, question)

\* A _save_questions that makes the backup after writing questions.json.
save_questions_BackupAfterWrite(dir, data) ==
  [dir EXCEPT !.questions_json = data, !.bak = <<data>>]

\* _save_questions(data, backup=True): questions.json is copied to
\* questions.json.bak, then written.
save_questions(dir, data) ==
  [dir EXCEPT !.questions_json = data, !.bak = <<dir.questions_json>>]

\* One run of a tool's main: the command saves when it reaches
\* _save_questions, and the exit status is 0 unless the message starts
\* with ERROR.
RunCommand(command, out) ==
  phase_dir' =
    [(IF out.saved THEN save_questions(phase_dir, out.data) ELSE phase_dir) EXCEPT
       !.saved = out.saved,
       !.just_exported = FALSE,
       !.command = command,
       !.result = out.result,
       !.exit_code = IF out.result = "ERROR" THEN 1 ELSE 0,
       !.before = [questions_json |-> phase_dir.questions_json, bak |-> phase_dir.bak],
       !.ops = @ + 1]

\* add --section s1 --type free_text, and the command lines that differ from
\* it or from add --type single_select --options a:A in one or two options.
AddArgs ==
  LET plain == [section |-> "s1", type |-> "free_text", options |-> "none",
                manifest |-> <<"full">>, order |-> 0]
      select == [plain EXCEPT !.type = "single_select", !.options = "ok"]
  IN {[plain EXCEPT !.type = t] : t \in Range(TOOL_VALID_TYPES)}
     \cup {[plain EXCEPT !.section = sec] : sec \in {"s2", "s9"}}
     \cup {[plain EXCEPT !.manifest = m] : m \in {<<"lite", "full">>, <<"bogus">>}}
     \cup {[plain EXCEPT !.order = 5]}
     \cup {select, [select EXCEPT !.options = "bad"],
           [select EXCEPT !.type = "multi_select", !.section = "s2"],
           [select EXCEPT !.type = "ranked_select"],
           [select EXCEPT !.type = "compound"]}

UpdateArgs ==
  {[question |-> q, field |-> fv[1], value |-> fv[2]] :
     q \in {"q01", "q09"},
     fv \in {<<"title", "T2">>, <<"type", "single_select">>, <<"type", "scale">>,
             <<"section_id", "s2">>, <<"order", "q02">>, <<"order", "x">>,
             <<"tags", "lite">>}}

DeleteArgs == [question : {"q01", "q02", "q09"}, confirm : BOOLEAN]

\* A complete free_text question as a file of questions/ holds it.
FileQuestion(id, section_id, tags) ==
  [has |-> Range(TOOL_REQUIRED), id |-> id, section_id |-> section_id, order |-> 1,
   title |-> "T", type |-> "free_text", options |-> <<>>, tags |-> tags,
   max |-> 0, max_selected |-> 0]

ImportFiles ==
  {[state |-> "missing", question |-> FileQuestion("q01", "s1", <<"full">>)],
   [state |-> "malformed", question |-> FileQuestion("q01", "s1", <<"full">>)]}
  \cup
  {[state |-> "ok", question |-> q] :
     q \in {FileQuestion("q01", "s1", <<"full">>),
            FileQuestion("q02", "s2", <<"lite">>),
            [FileQuestion("q02", "s1", <<"full">>) EXCEPT !.has = @ \ {"id", "order"}],
            [FileQuestion("q03", "s1", <<>>) EXCEPT !.has = @ \ {"tags"}],
            [FileQuestion("q03", "", <<"full">>) EXCEPT !.has = @ \ {"section_id", "order"}]}}

\* import --file f, and the command lines with one more option, or with
\* --overwrite and one more option.
ImportArgs ==
  UNION {LET plain == [file |-> f, section |-> "", manifest |-> <<>>,
                       auto_id |-> FALSE, overwrite |-> FALSE]
             over == [plain EXCEPT !.overwrite = TRUE]
         IN {plain, over, [plain EXCEPT !.auto_id = TRUE],
             [plain EXCEPT !.section = "s9"], [plain EXCEPT !.manifest = <<"lite">>],
             [over EXCEPT !.section = "s2"], [over EXCEPT !.manifest = <<"lite">>]} :
         f \in ImportFiles}

\* python scripts/question_tool.py add ...
AddQuestion ==
  /\ pc = "question_tool"
  /\ phase_dir.ops < MaxOps
  /\ \E args \in AddArgs :
       RunCommand("add", add_question(phase_dir.questions_json, args))
  /\ UNCHANGED <<pc, conv, agg, pm, pf, val>>

\* python scripts/question_tool.py update ...
UpdateQuestion ==
  /\ pc = "question_tool"
  /\ phase_dir.ops < MaxOps
  /\ \E args \in UpdateArgs :
       RunCommand("update", update_question(phase_dir.questions_json, args))
  /\ UNCHANGED <<pc, conv, agg, pm, pf, val>>

\* python scripts/question_tool.py delete ...
DeleteQuestion ==
  /\ pc = "question_tool"
  /\ phase_dir.ops < MaxOps
  /\ \E args \in DeleteArgs :
       RunCommand("delete", delete_question(phase_dir.questions_json, args))
  /\ UNCHANGED <<pc, conv, agg, pm, pf, val>>

\* python scripts/question_tool.py import ...
ImportQuestion ==
  /\ pc = "question_tool"
  /\ phase_dir.ops < MaxOps
  /\ \E args \in ImportArgs :
       RunCommand("import", import_question(phase_dir.questions_json, args))
  /\ UNCHANGED <<pc, conv, agg, pm, pf, val>>

NextQuestionTool ==
  \/ AddQuestion
  \/ UpdateQuestion
  \/ DeleteQuestion
  \/ ImportQuestion

\* A stored question of the documents the tools start from.
StoredQuestion(id, section_id, order, type, tags) ==
  [has |-> Range(TOOL_REQUIRED) \cup (IF type = "free_text" THEN {} ELSE {"options"}),
   id |-> id, section_id |-> section_id, order |-> order, title |-> "T",
   type |-> type, options |-> IF type = "free_text" THEN <<>> ELSE <<"option">>,
   tags |-> tags, max |-> 0, max_selected |-> 0]

ToolSection(id, question_ids) == [id |-> id, title |-> "A", question_ids |-> question_ids]

\* The documents a run starts from: every reference resolves, no list holds
\* an id twice, each question is listed in its section and in the manifests
\* of its tags.
ToolDocs ==
  {[sections |-> <<ToolSection("s1", <<>>), ToolSection("s2", <<>>)>>,
    questions |-> EmptyDict,
    manifests |-> [m \in {"lite", "full"} |-> [question_ids |-> <<>>]]],
   [sections |-> <<ToolSection("s1", <<"q01">>), ToolSection("s2", <<>>)>>,
    questions |-> Put(EmptyDict, "q01",
                      StoredQuestion("q01", "s1", 1, "free_text", <<"lite", "full">>)),
    manifests |-> [m \in {"lite", "full"} |-> [question_ids |-> <<"q01">>]]],
   [sections |-> <<ToolSection("s1", <<"q01">>), ToolSection("s2", <<"q02">>)>>,
    questions |-> Put(Put(EmptyDict, "q01",
                          StoredQuestion("q01", "s1", 1, "multi_select", <<"full">>)),
                      "q02", StoredQuestion("q02", "s2", 1, "free_text", <<"lite", "full">>)),
    manifests |-> [m \in {"lite", "full"} |->
                     [question_ids |-> IF m = "lite" THEN <<"q02">> ELSE <<"q01", "q02">>]]]}

PhaseDirStart(data) ==
  [questions_json |-> data, bak |-> <<>>, questions |-> EmptyDict,
   questions_dir |-> FALSE, just_exported |-> FALSE,
   command |-> "", result |-> "", exit_code |-> 0, saved |-> FALSE,
   before |-> [questions_json |-> data, bak |-> <<>>], ops |-> 0]

InitTool(start) ==
  /\ pc = start
  /\ phase_dir \in {PhaseDirStart(data) : data \in ToolDocs}
  /\ conv = Idle /\ agg = Idle /\ pm = Idle /\ pf = Idle /\ val = Idle

InitQuestionTool == InitTool("question_tool")

SpecQuestionTool == InitQuestionTool /\ [][NextQuestionTool]_vars

\* Every id listed by a section or a manifest of the document is a question.
ToolRefsResolve(data) ==
  /\ \A i \in 1..Len(data.sections) :
       Range(data.sections[i].question_ids) \subseteq DOMAIN data.questions
  /\ \A m \in DOMAIN data.manifests :
       Range(data.manifests[m].question_ids) \subseteq DOMAIN data.questions

\* The id occurs in some section's or some manifest's question_ids.
Listed(data, qid) ==
  \/ \E i \in 1..Len(data.sections) : qid \in Range(data.sections[i].question_ids)
  \/ \E m \in DOMAIN data.manifests : qid \in Range(data.manifests[m].question_ids)

QuestionToolRun == pc = "question_tool"

\* C23: after any sequence of question_tool commands on a document whose
\* references resolve and whose lists hold no id twice, every id listed by a
\* section or a manifest is a key of questions, and after a successful
\* delete the deleted id is listed by no section and no manifest.
C23_ReferencesStayResolved ==
  QuestionToolRun =>
    /\ ToolRefsResolve(phase_dir.questions_json)
    /\ (phase_dir.command = "delete" /\ phase_dir.result = "SUCCESS") =>
         \A qid \in DOMAIN phase_dir.before.questions_json.questions
                      \ DOMAIN phase_dir.questions_json.questions :
           ~Listed(phase_dir.questions_json, qid)

\* C23 witness: a question that a section and a manifest listed has been
\* deleted, after an earlier command had written the document.
C23_Witness ==
  /\ QuestionToolRun
  /\ phase_dir.command = "delete" /\ phase_dir.result = "SUCCESS"
  /\ phase_dir.ops >= 2
  /\ \E qid \in DOMAIN phase_dir.before.questions_json.questions :
       /\ qid \notin DOMAIN phase_dir.questions_json.questions
       /\ qid \in Range(phase_dir.before.questions_json.sections[1].question_ids)
       /\ qid \in Range(phase_dir.before.questions_json.manifests["lite"].question_ids)

\* The question that the add command run last was to create is stored
\* under an id that was free, listed by its section and by each manifest
\* of its tags.
AddPersisted ==
  LET old == phase_dir.before.questions_json
      new == phase_dir.questions_json
      qid == get_next_question_id(old)
  IN /\ qid \notin DOMAIN old.questions
     /\ qid \in DOMAIN new.questions
     /\ \E i \in 1..Len(new.sections) :
          /\ new.sections[i].id = new.questions[qid].section_id
          /\ qid \in Range(new.sections[i].question_ids)
     /\ \A m \in Range(new.questions[qid].tags) :
          m \in DOMAIN new.manifests /\ qid \in Range(new.manifests[m].question_ids)

\* C24: the add command exits with status 0 exactly when the new question,
\* of any type, has been persisted under a fresh id, appended to its section
\* and added to each named manifest.
C24_AddExitStatusMeansPersisted ==
  (QuestionToolRun /\ phase_dir.command = "add") =>
    (phase_dir.exit_code = 0 <=> AddPersisted)

\* The half of C24 that the tool keeps: a successful add has persisted the
\* question, and an add that printed an ERROR has status 1.
AddSuccessMeansPersisted ==
  (QuestionToolRun /\ phase_dir.command = "add") =>
    /\ phase_dir.result = "SUCCESS" => (AddPersisted /\ phase_dir.exit_code = 0)
    /\ phase_dir.result = "ERROR" => (~AddPersisted /\ phase_dir.exit_code = 1)

\* C29: a question_tool command whose result begins with ERROR or
\* VALIDATION ERRORS leaves questions.json and questions.json.bak as they
\* were, and a command that writes leaves in questions.json.bak the content
\* questions.json had before the write.
C29_ErrorsWriteNothing ==
  QuestionToolRun =>
    /\ phase_dir.result \in {"ERROR", "VALIDATION ERRORS"} =>
         /\ phase_dir.questions_json = phase_dir.before.questions_json
         /\ phase_dir.bak = phase_dir.before.bak
    /\ phase_dir.saved => phase_dir.bak = <<phase_dir.before.questions_json>>

\* C29 witness: a command has failed with validation errors after an
\* earlier command had written a changed document, and both files are as
\* that earlier command left them.
C29_Witness ==
  /\ QuestionToolRun
  /\ phase_dir.result = "VALIDATION ERRORS"
  /\ phase_dir.ops >= 2
  /\ phase_dir.bak # <<>>
  /\ phase_dir.bak # <<phase_dir.questions_json>>

\* Each question is listed by exactly the section of its section_id and by
\* exactly the manifests of its tags.
Corresponds(data) ==
  \A qid \in DOMAIN data.questions :
    /\ \A i \in 1..Len(data.sections) :
         qid \in Range(data.sections[i].question_ids)
           <=> data.sections[i].id = data.questions[qid].section_id
    /\ \A m \in DOMAIN data.manifests :
         qid \in Range(data.manifests[m].question_ids)
           <=> m \in Range(data.questions[qid].tags)

\* C30: every successful question_tool command keeps each question listed
\* by exactly the section of its section_id and exactly the manifests of its
\* tags.included_in_manifests.
C30_ListsFollowSectionAndTags ==
  QuestionToolRun => Corresponds(phase_dir.questions_json)

-----------------------------------------------------------------------------
\* src/scripts/section_manager.py: SectionManager, on the same phase
\* directory.  An option left out of the command line is <<>>, a given one
\* <<value>>.

\* section_id.startswith('s'), over the ids of the model
StartsWithS(section_id) == section_id \in {"s1", "s2", "s3", "s9"}

\* _validate_section_id(section_id)
validate_section_id(section_id) ==
  Collect(<< <<section_id = "", <<"Section ID cannot be empty">> >>,
             <<~StartsWithS(section_id), <<"Section ID must start with 's'">> >> >>)

\* list.insert(position, x) for 0 <= position <= len(list)
InsertAt(list, position, x) ==
  SubSeq(list, 1, position) \o <<x>> \o SubSeq(list, position + 1, Len(list))

\* list.pop(index), 0-based
PopAt(list, index) == SubSeq(list, 1, index) \o SubSeq(list, index + 2, Len(list))

\* max(0, min(n, top))
Clamp(n, top) == IF n < 0 THEN 0 ELSE IF n > top THEN top ELSE n

\* add_section(args)
add_section(data, args) ==
  IF validate_section_id(args.id) # <<>> THEN Returned("VALIDATION ERRORS", data, FALSE)
  ELSE IF FindSection(data.sections, args.id) # 0 THEN Returned("ERROR", data, FALSE)
  ELSE LET new_section == [id |-> args.id, title |-> args.title, question_ids |-> <<>>]
       IN Returned("SUCCESS",
            [data EXCEPT !.sections =
               IF args.order # <<>>
                 THEN InsertAt(@, Clamp(args.order[1] - 1, Len(@)), new_section)
                 ELSE Append(@, new_section)],
            TRUE)

\* A remove_section without the check for questions in the section.
remove_section_EvenWithQuestions(data, args) ==
  IF ~args.confirm THEN Returned("ERROR", data, FALSE)
  ELSE LET i == FindSection(data.sections, args.id)
       IN IF i = 0 THEN Returned("ERROR", data, FALSE)
          ELSE Returned("SUCCESS", [data EXCEPT !.sections = PopAt(@, i - 1)], TRUE)

\* remove_section(args): list.remove drops the first section equal to the
\* one found.
remove_section(data, args) ==
  IF ~args.confirm THEN Returned("ERROR", data, FALSE)
  ELSE LET i == FindSection(data.sections, args.id)
       IN IF i = 0 THEN Returned("ERROR", data, FALSE)
          ELSE IF data.sections[i].question_ids # <<>> THEN Returned("ERROR", data, FALSE)
          ELSE LET first == CHOOSE j \in 1..i :
                              /\ data.sections[j] = data.sections[i]
                              /\ \A k \in 1..(j - 1) : data.sections[k] # data.sections[i]
               IN Returned("SUCCESS", [data EXCEPT !.sections = PopAt(@, first - 1)], TRUE)

\* rename_section(args)
rename_section(data, args) ==
  LET i == FindSection(data.sections, args.id)
  IN IF i = 0 THEN Returned("ERROR", data, FALSE)
     ELSE Returned("SUCCESS", [data EXCEPT !.sections[i].title = args.title], TRUE)

\* reorder_section(args)
reorder_section(data, args) ==
  LET i == FindSection(data.sections, args.id)
  IN IF i = 0 THEN Returned("ERROR", data, FALSE)
     ELSE LET new_position == Clamp(args.position - 1, Len(data.sections) - 1)
          IN Returned("SUCCESS",
               [data EXCEPT !.sections =
                  InsertAt(PopAt(@, i - 1), new_position, data.sections[i])],
               TRUE)

SectionIds == {"s1", "s2", "s3"}

\* python scripts/section_manager.py add ...
AddSection ==
  /\ pc = "section_manager"
  /\ phase_dir.ops < MaxOps
  /\ \E args \in [id : SectionIds \cup {"", "x1"}, title : {"B"},
                  order : {<<>>, <<0>>, <<2>>, <<9>>}] :
       RunCommand("add", add_section(phase_dir.questions_json, args))
  /\ UNCHANGED <<pc, conv, agg, pm, pf, val>>

\* python scripts/section_manager.py remove ...
RemoveSection ==
  /\ pc = "section_manager"
  /\ phase_dir.ops < MaxOps
  /\ \E args \in [id : SectionIds, confirm : BOOLEAN] :
       RunCommand("remove", remove_section(phase_dir.questions_json, args))
  /\ UNCHANGED <<pc, conv, agg, pm, pf, val>>

\* python scripts/section_manager.py rename ...
RenameSection ==
  /\ pc = "section_manager"
  /\ phase_dir.ops < MaxOps
  /\ \E args \in [id : SectionIds, title : {"A", "B"}] :
       RunCommand("rename", rename_section(phase_dir.questions_json, args))
  /\ UNCHANGED <<pc, conv, agg, pm, pf, val>>

\* python scripts/section_manager.py reorder ...
ReorderSection ==
  /\ pc = "section_manager"
  /\ phase_dir.ops < MaxOps
  /\ \E args \in [id : SectionIds, position : {0, 1, 2, 9}] :
       RunCommand("reorder", reorder_section(phase_dir.questions_json, args))
  /\ UNCHANGED <<pc, conv, agg, pm, pf, val>>

NextSections ==
  \/ AddSection
  \/ RemoveSection
  \/ RenameSection
  \/ ReorderSection

InitSections == InitTool("section_manager")

SpecSections == InitSections /\ [][NextSections]_vars

SectionsRun == pc = "section_manager"

\* The (section id, question_ids) pairs of the document.
SectionPairs(data) ==
  {<<data.sections[i].id, data.sections[i].question_ids>> : i \in 1..Len(data.sections)}

\* C25: under any sequence of section_manager commands the section ids stay
\* pairwise distinct, the questions stay as they are, the (id, question_ids)
\* pairs change only by an empty section being added or removed, reorder
\* only permutes the sections and rename leaves every pair in its place.
C25_SectionsKeepQuestions ==
  SectionsRun =>
    LET old == phase_dir.before.questions_json
        new == phase_dir.questions_json
    IN /\ \A i, j \in 1..Len(new.sections) :
            new.sections[i].id = new.sections[j].id => i = j
       /\ new.questions = old.questions
       /\ new.manifests = old.manifests
       /\ \A pair \in (SectionPairs(new) \ SectionPairs(old))
                        \cup (SectionPairs(old) \ SectionPairs(new)) : pair[2] = <<>>
       /\ phase_dir.command = "reorder" =>
            /\ Range(new.sections) = Range(old.sections)
            /\ Len(new.sections) = Len(old.sections)
       /\ phase_dir.command = "rename" =>
            /\ Len(new.sections) = Len(old.sections)
            /\ \A i \in 1..Len(new.sections) :
                 /\ new.sections[i].id = old.sections[i].id
                 /\ new.sections[i].question_ids = old.sections[i].question_ids

\* C25 witness: the removal of a section that lists a question has been
\* refused, after an empty section had been removed.
C25_Witness ==
  /\ SectionsRun
  /\ phase_dir.command = "remove" /\ phase_dir.result = "ERROR"
  /\ phase_dir.bak # <<>>
  /\ Len(phase_dir.questions_json.sections) < Len(phase_dir.bak[1].sections)
  /\ \E i \in 1..Len(phase_dir.questions_json.sections) :
       phase_dir.questions_json.sections[i].question_ids # <<>>

-----------------------------------------------------------------------------
\* src/scripts/questions_manager.py: QuestionsManager, on the same phase
\* directory.  Every question id of the model starts with q, so every file
\* <id>.json matches the pattern q*.json of merge_phase.

\* "Export individual JSON files": <q_id>.json is written for each question
\* of the document; the other files of questions/ stay.
ExportFiles(files, questions) ==
  [stem \in DOMAIN files \cup DOMAIN questions |->
     IF stem \in DOMAIN questions THEN questions[stem] ELSE files[stem]]

\* export_phase(phase_name): questions.json exists and is read.
export_phase(dir) ==
  [dir EXCEPT !.questions_dir = TRUE,
              !.questions = ExportFiles(dir.questions, dir.questions_json.questions)]

\* for file_path in files: main_data['questions'][file_path.stem] = individual_data
MergeFiles(questions, files) ==
  [qid \in DOMAIN questions \cup DOMAIN files |->
     IF qid \in DOMAIN files THEN files[qid] ELSE questions[qid]]

\* merge_phase(phase_name) where the questions/ directory exists: the
\* backup is made and questions.json written, whatever was merged.
merge_phase(dir) ==
  save_questions(dir, [dir.questions_json EXCEPT
                         !.questions = MergeFiles(@, dir.questions)])

\* python scripts/questions_manager.py --action export --phase <phase>
ExportPhase ==
  /\ pc = "question_tool"
  /\ phase_dir.ops < MaxManagerOps
  /\ phase_dir' =
       [export_phase(phase_dir) EXCEPT
          !.command = "export", !.result = "SUCCESS", !.exit_code = 0,
          !.saved = FALSE, !.just_exported = TRUE,
          !.before = [questions_json |-> phase_dir.questions_json, bak |-> phase_dir.bak],
          !.ops = @ + 1]
  /\ UNCHANGED <<pc, conv, agg, pm, pf, val>>

\* python scripts/questions_manager.py --action merge --phase <phase>: the
\* phase is skipped, and the run fails, while there is no questions/.
MergePhase ==
  /\ pc = "question_tool"
  /\ phase_dir.ops < MaxManagerOps
  /\ phase_dir' =
       [(IF phase_dir.questions_dir THEN merge_phase(phase_dir) ELSE phase_dir) EXCEPT
          !.command = "merge",
          !.result = IF phase_dir.questions_dir THEN "SUCCESS" ELSE "WARNING",
          !.exit_code = IF phase_dir.questions_dir THEN 0 ELSE 1,
          !.saved = phase_dir.questions_dir,
          !.just_exported = FALSE,
          !.before = [questions_json |-> phase_dir.questions_json, bak |-> phase_dir.bak,
                      exported |-> phase_dir.just_exported],
          !.ops = @ + 1]
  /\ UNCHANGED <<pc, conv, agg, pm, pf, val>>

\* Exports and merges, with deletions and updates of question_tool between
\* them.
NextManager ==
  \/ ExportPhase
  \/ MergePhase
  \/ DeleteQuestion
  \/ UpdateQuestion

SpecManager == InitQuestionTool /\ [][NextManager]_vars

\* A merge has run right after an export.
MergedAfterExport ==
  /\ pc = "question_tool"
  /\ phase_dir.command = "merge"
  /\ phase_dir.saved
  /\ phase_dir.before.exported

\* C26: export_phase followed by merge_phase, whatever files earlier
\* exports left in questions/, leaves the questions map of questions.json
\* as it was before the export, and a second export or a second merge
\* changes nothing further.
C26_ExportMergeRoundTrip ==
  /\ MergedAfterExport =>
       phase_dir.questions_json.questions = phase_dir.before.questions_json.questions
  /\ pc = "question_tool" =>
       /\ export_phase(export_phase(phase_dir)).questions = export_phase(phase_dir).questions
       /\ phase_dir.questions_dir =>
            merge_phase(merge_phase(phase_dir)).questions_json
              = merge_phase(phase_dir).questions_json

\* What the round trip keeps: every question the document had before the
\* export is in it unchanged after the merge, and both operations are
\* idempotent.
ExportMergeKeepsDocumentQuestions ==
  /\ MergedAfterExport =>
       \A qid \in DOMAIN phase_dir.before.questions_json.questions :
         /\ qid \in DOMAIN phase_dir.questions_json.questions
         /\ phase_dir.questions_json.questions[qid]
              = phase_dir.before.questions_json.questions[qid]
  /\ pc = "question_tool" =>
       /\ export_phase(export_phase(phase_dir)).questions = export_phase(phase_dir).questions
       /\ phase_dir.questions_dir =>
            merge_phase(merge_phase(phase_dir)).questions_json
              = merge_phase(phase_dir).questions_json

-----------------------------------------------------------------------------
\* src/scripts/question_properties.py: QuestionPropertiesManager, and the two
\* checks that look for a multi_select question without a limit.

\* The ids of qids that set_max updates: a question of the document whose
\* type is multi_select or ranked_select.
MaxUpdated(data, qids) ==
  SelectSeq(qids, LAMBDA qid :
    /\ qid \in DOMAIN data.questions
    /\ data.questions[qid].type \in {"multi_select", "ranked_select"})

\* set_max(question_ids, max_value): q['max'] = max_value on each updated
\* question; the document is saved when one was updated, and the message
\* starts with [SUCCESS] whatever happened.
set_max(data, question_ids, max_value) ==
  LET updated == Range(MaxUpdated(data, question_ids))
  IN Returned("SUCCESS",
       [data EXCEPT !.questions =
          [qid \in DOMAIN @ |->
             IF qid \in updated
               THEN [@[qid] EXCEPT !.has = @ \cup {"max"}, !.max = max_value]
               ELSE @[qid]]],
       updated # {})

\* remove_max(question_ids): del data['questions'][qid]['max'] where the
\* question exists and has the key.
remove_max(data, question_ids) ==
  LET updated == {qid \in Range(question_ids) :
                    qid \in DOMAIN data.questions /\ "max" \in data.questions[qid].has}
  IN Returned("SUCCESS",
       [data EXCEPT !.questions =
          [qid \in DOMAIN @ |->
             IF qid \in updated
               THEN [@[qid] EXCEPT !.has = @ \ {"max"}, !.max = 0]
               ELSE @[qid]]],
       updated # {})

\* main of question_properties.py: the command's outcome on the phase
\* directory; targets is the list of question ids the command worked on.
RunProperties(command, targets, out) ==
  phase_dir' =
    [(IF out.saved THEN save_questions(phase_dir, out.data) ELSE phase_dir) EXCEPT
       !.saved = out.saved,
       !.just_exported = FALSE,
       !.command = command,
       !.result = out.result,
       !.exit_code = IF out.result = "SUCCESS" THEN 0 ELSE 1,
       !.before = [questions_json |-> phase_dir.questions_json, bak |-> phase_dir.bak,
                   targets |-> targets],
       !.ops = @ + 1]

\* The --questions lists of the model.
PropertyQuestions == {<<"q01">>, <<"q02">>, <<"q01", "q02">>, <<"q09", "q01">>}

\* The --value numbers of the model.
PropertyValues == {0, 3}

\* set-max --phase <phase> --questions <ids> --value <n>
SetMax ==
  /\ pc = "question_properties"
  /\ phase_dir.ops < MaxOps
  /\ \E qids \in PropertyQuestions, max_value \in PropertyValues :
       RunProperties("set-max", qids, set_max(phase_dir.questions_json, qids, max_value))
  /\ UNCHANGED <<pc, conv, agg, pm, pf, val>>

\* set-max --phase <phase> --type <type> --value <n>: the questions of the
\* type, and exit status 1 when there is none.
SetMaxOfType ==
  /\ pc = "question_properties"
  /\ phase_dir.ops < MaxOps
  /\ \E type \in {"multi_select", "free_text", "ranked_select"}, max_value \in PropertyValues :
       LET data == phase_dir.questions_json
           qids == SelectSeq(Items(data.questions), LAMBDA qid : data.questions[qid].type = type)
       IN RunProperties("set-max", qids,
            IF qids = <<>> THEN Returned("No questions found", data, FALSE)
            ELSE set_max(data, qids, max_value))
  /\ UNCHANGED <<pc, conv, agg, pm, pf, val>>

\* remove-max --phase <phase> --questions <ids>
RemoveMax ==
  /\ pc = "question_properties"
  /\ phase_dir.ops < MaxOps
  /\ \E qids \in PropertyQuestions :
       RunProperties("remove-max", qids, remove_max(phase_dir.questions_json, qids))
  /\ UNCHANGED <<pc, conv, agg, pm, pf, val>>

NextProperties ==
  \/ SetMax
  \/ SetMaxOfType
  \/ RemoveMax

InitProperties == InitTool("question_properties")

SpecProperties == InitProperties /\ [][NextProperties]_vars

\* audit_questions.py _check_multi_select_limits over the questions of the
\* document: the ids put on the multi_select_no_limit list.
check_multi_select_limits(data) ==
  {qid \in DOMAIN data.questions :
     LET q == data.questions[qid]
     IN /\ Get(q, "type") = "multi_select"
        /\ ~("validation" \in q.has /\ q.max_selected # 0)}

\* The ids validate_schema's best_practices check reports.
BestPracticesReported(data) ==
  {f[2] : f \in Range(check_best_practices(data))}

\* The multi_select questions among the targets of the command run last.
MultiSelectTargets ==
  {qid \in Range(phase_dir.before.targets) :
     /\ qid \in DOMAIN phase_dir.questions_json.questions
     /\ phase_dir.questions_json.questions[qid].type = "multi_select"}

PropertiesRun == pc = "question_properties" /\ phase_dir.ops > 0

\* C28: after set-max on a multi_select question neither the best_practices
\* check of validate_schema nor the multi_select_limits check of
\* audit_questions reports the question, and after remove-max both report
\* it.
C28_LimitFlaggedIffAbsent ==
  PropertiesRun /\ phase_dir.result = "SUCCESS" =>
    \A qid \in MultiSelectTargets :
      /\ phase_dir.command = "set-max" =>
           /\ qid \notin BestPracticesReported(phase_dir.questions_json)
           /\ qid \notin check_multi_select_limits(phase_dir.questions_json)
      /\ phase_dir.command = "remove-max" =>
           /\ qid \in BestPracticesReported(phase_dir.questions_json)
           /\ qid \in check_multi_select_limits(phase_dir.questions_json)

\* The same for the best_practices check of validate_schema alone, which
\* reads the key that set-max and remove-max write.
BestPracticesFollowsMax ==
  PropertiesRun /\ phase_dir.result = "SUCCESS" =>
    \A qid \in MultiSelectTargets :
      /\ phase_dir.command = "set-max" =>
           qid \notin BestPracticesReported(phase_dir.questions_json)
      /\ phase_dir.command = "remove-max" =>
           qid \in BestPracticesReported(phase_dir.questions_json)

====
